---- MODULE Spec2Model ----
(***************************************************************************)
(* Access-control and workflow core of the project/issue tracker:          *)
(* project membership (one Project Lead per project) and the issue         *)
(* workflow (creation policy, update policy, proposals, assignment         *)
(* requests).                                                              *)
(*                                                                         *)
(* Every HTTP handler is an operator from the database state and the       *)
(* request to a response code and the database state it commits; the       *)
(* action of the handler applies that operator to the current state.  A    *)
(* handler that raises commits nothing: the session is closed without a    *)
(* commit, or the failed commit is rolled back.                            *)
(***************************************************************************)
EXTENDS Integers, FiniteSets, Sequences, TLC

\* ------------------------------------------------------------------ bounds

MaxProjects == 1
MaxIssues == 1

\* Issues on the board of the listing and proposal-review exploration.
MaxBoardIssues == 3

\* Phases of the project whose progress is calculated.
MaxPhases == 2
\* Issues of that project, each with any phase and status.
MaxProgressIssues == 4
\* Issues of a long backlog, all in one phase and all but a few DONE.
BacklogSize == 200

\* Rows of table phases.
MaxPhaseRows == 2

\* --------------------------------------------------------------- constants

\* app/main.py on_startup creates admin@ceat.com and makes it a superuser;
\* the other accounts are ordinary registered users.
DefaultAdmin == "u1"
Users == {"u1", "u2", "u3"}
\* An email address that belongs to no account.
UnknownEmail == "nobody"
Emails == Users \cup {UnknownEmail}
\* Python's None: a null column, an absent row, an omitted optional.
None == "None"
\* A field the request body does not mention (pydantic exclude_unset).
Unset == "Unset"

ProjectIds == 1..MaxProjects
IssueIds == 1..MaxIssues

ADMIN == "ADMIN"
PROJECT_LEAD == "PROJECT_LEAD"
MEMBER == "MEMBER"
ProjectRole == {ADMIN, PROJECT_LEAD, MEMBER}

PROPOSED == "PROPOSED"
TODO == "TO_DO"
IN_PROGRESS == "IN_PROGRESS"
IN_REVIEW == "IN_REVIEW"
DONE == "DONE"
IssueStatus == {PROPOSED, TODO, IN_PROGRESS, IN_REVIEW, DONE}

TASK == "TASK"
BUG == "BUG"
STORY == "STORY"
EPIC == "EPIC"
IssueType == {TASK, BUG, STORY, EPIC}

\* Response codes of the handlers.
OK == "2xx"
HTTP_400_BAD_REQUEST == "400"
HTTP_403_FORBIDDEN == "403"
HTTP_404_NOT_FOUND == "404"
\* An exception no handler catches (a database IntegrityError at commit).
HTTP_500_INTERNAL == "500"

\* ------------------------------------------------------------------- state

VARIABLES
    superusers,   \* the users whose is_superuser flag is set
    projects,     \* ids of the rows of table projects
    members,      \* members[p][u]: role of the project_members row, or None
    issues,       \* function from the ids of the rows of table issues to the rows
    last,         \* the operation of the last request that committed
    project_phases,      \* the phases handed to the progress calculation
    all_project_issues,  \* the issues handed to the progress calculation
    progress,     \* the progress calculated last, None before the first
    sessions,     \* sessions[r]: the database session of the request in slot r
    observed,     \* the member rows a concurrent read returned last
    accounts,     \* the users with a row in table users
    phase_table,  \* function from the ids of the rows of table phases to the rows
    issue_phase   \* issue_phase[i]: the phase_id of issue i, where it is not null

\* The inputs and the result of the progress calculation.
calcVars == <<project_phases, all_project_issues, progress>>
\* The sessions of the requests in flight and what a reader saw.
txVars == <<sessions, observed>>

\* The accounts and the phases.
restVars == <<accounts, phase_table, issue_phase>>

vars == <<superusers, projects, members, issues, last, calcVars, txVars, restVars>>

NoMembers == [u \in Users |-> None]

\* The value of last after a request for operation op answered with code: a
\* request that raises commits nothing and leaves no trace.
committed(op, code) == IF code = OK THEN op ELSE last

\* The slots of the requests that can be in flight at the same time.
Requests == {"r1", "r2"}

\* A slot with no request in it: get_db has closed the session.
Closed == [pc |-> "closed"]

\* The value of progress before the first calculation.
NotCalculated == [of |-> None]

\* No progress has been calculated.
NoCalculation ==
    /\ project_phases = <<>>
    /\ all_project_issues = <<>>
    /\ progress = NotCalculated

\* The value of observed before the first read.
NothingRead == [rows |-> NoMembers, during |-> {}]

\* No request is in flight and nothing has been read; every user has an
\* account and no project has a phase.
NoRequests ==
    /\ sessions = [r \in Requests |-> Closed]
    /\ observed = NothingRead
    /\ accounts = Users
    /\ phase_table = << >>
    /\ issue_phase = << >>

Init ==
    /\ superusers = {DefaultAdmin}
    /\ projects = {}
    /\ members = [p \in ProjectIds |-> NoMembers]
    /\ issues = <<>>
    /\ last = "startup"
    /\ NoCalculation
    /\ NoRequests

\* ------------------------------------------------------ membership queries

\* crud_member.get_project_member: the role of the row, None when absent.
get_project_member(project_id, user_id) == members[project_id][user_id]

\* crud_member.get_project_members: the users with a row in the project.
get_project_members(project_id) == {u \in Users : members[project_id][u] # None}

\* The rows of a project whose role is PROJECT_LEAD.
project_leads(project_id) == {u \in Users : members[project_id][u] = PROJECT_LEAD}

\* db.query(ProjectMember).filter(role == PROJECT_LEAD).first(): any one of the
\* lead rows (the query has no ORDER BY), None when there is none.
current_lead_choices(project_id) ==
    IF project_leads(project_id) = {} THEN {None} ELSE project_leads(project_id)

\* crud_user.get_user_by_email: emails are unique, the user is its email.
get_user_by_email(email) == IF email \in Users THEN email ELSE None

\* ------------------------------------------------------------- role guards

\* deps.require_role when lines 78-85 are left out: a superuser is judged by
\* the membership row like anyone else.
require_role_rows_only(required_roles, project_id, current_user) ==
    LET member == get_project_member(project_id, current_user) IN
    IF member = None
    THEN [code |-> HTTP_403_FORBIDDEN, role |-> None]
    ELSE IF member \notin required_roles
    THEN [code |-> HTTP_403_FORBIDDEN, role |-> None]
    ELSE [code |-> OK, role |-> member]

\* deps.require_role(required_roles).get_current_member: the role of the
\* (mock or stored) ProjectMember it returns, or the code it raises.
require_role(required_roles, project_id, current_user) ==
    IF current_user \in superusers
    THEN [code |-> OK, role |-> ADMIN]
    ELSE LET member == get_project_member(project_id, current_user) IN
         IF member = None
         THEN [code |-> HTTP_403_FORBIDDEN, role |-> None]
         ELSE IF ADMIN \in required_roles /\ current_user \in superusers
         THEN [code |-> OK, role |-> member]
         ELSE IF member \notin required_roles
         THEN [code |-> HTTP_403_FORBIDDEN, role |-> None]
         ELSE [code |-> OK, role |-> member]

\* projects.get_single_project: the guard on the project id of the path,
\* then the lookup of the project.
get_single_project(current_user, project_id) ==
    LET guard == require_role({ADMIN, PROJECT_LEAD, MEMBER}, project_id, current_user)
    IN IF guard.code # OK THEN guard.code
       ELSE IF project_id \notin projects THEN HTTP_404_NOT_FOUND
       ELSE OK

\* deps.get_current_superuser.
get_current_superuser(current_user) ==
    IF current_user \notin superusers THEN HTTP_403_FORBIDDEN ELSE OK

\* ------------------------------------------------------- membership writes

\* crud_member.update_member_role without the demotion of the current lead.
update_member_role_no_demote(project_id, user_id, new_role, current_lead) ==
    [members EXCEPT ![project_id][user_id] = new_role]

\* crud_member.update_member_role, the row exists: demote the current lead
\* when the new role is PROJECT_LEAD and the lead is another user, then set
\* the role; one commit.
update_member_role(project_id, user_id, new_role, current_lead) ==
    LET demoted ==
            IF new_role = PROJECT_LEAD /\ current_lead # None /\ current_lead # user_id
            THEN [members EXCEPT ![project_id][current_lead] = MEMBER]
            ELSE members
    IN [demoted EXCEPT ![project_id][user_id] = new_role]

\* add_member_to_project lines 59-66 without the demotion of the current lead.
add_without_demotion(project_id, user_id, role, current_lead) ==
    [members EXCEPT ![project_id][user_id] = role]

\* members.add_member_to_project lines 59-66: demote the current lead when
\* the new member is added as PROJECT_LEAD, then crud_member.add_project_member
\* inserts the row and commits both.
add_with_demotion(project_id, user_id, role, current_lead) ==
    LET demoted ==
            IF role = PROJECT_LEAD /\ current_lead # None
            THEN [members EXCEPT ![project_id][current_lead] = MEMBER]
            ELSE members
    IN [demoted EXCEPT ![project_id][user_id] = role]

\* crud_member.remove_project_member.
remove_project_member(project_id, user_id) ==
    [members EXCEPT ![project_id][user_id] = None]

\* ----------------------------------------------------- membership handlers

\* crud_project.create_project when the project row flushed at line 153 is
\* committed before the lead is looked up: an unknown lead leaves it behind.
create_project_commits_early(current_user, new_id, lead_email, member_emails) ==
    IF get_current_superuser(current_user) # OK
    THEN [code |-> HTTP_403_FORBIDDEN, projects |-> projects, members |-> members]
    ELSE IF lead_email # None /\ get_user_by_email(lead_email) = None
    THEN [code |-> HTTP_404_NOT_FOUND, projects |-> projects \cup {new_id},
          members |-> members]
    ELSE LET project_lead_id ==
                 IF lead_email # None THEN get_user_by_email(lead_email)
                                      ELSE current_user
             rows == [u \in Users |->
                        IF u = project_lead_id THEN PROJECT_LEAD
                        ELSE IF u \in member_emails THEN MEMBER
                        ELSE None]
         IN [code |-> OK,
             projects |-> projects \cup {new_id},
             members |-> [members EXCEPT ![new_id] = rows]]

\* crud_project.create_project, called by projects.create_new_project behind
\* get_current_superuser.  lead_email is None when the request names no lead.
create_project(current_user, new_id, lead_email, member_emails) ==
    IF get_current_superuser(current_user) # OK
    THEN [code |-> HTTP_403_FORBIDDEN, projects |-> projects, members |-> members]
    ELSE IF lead_email # None /\ get_user_by_email(lead_email) = None
    THEN [code |-> HTTP_404_NOT_FOUND, projects |-> projects, members |-> members]
    ELSE LET project_lead_id ==
                 IF lead_email # None THEN get_user_by_email(lead_email)
                                      ELSE current_user
             rows == [u \in Users |->
                        IF u = project_lead_id THEN PROJECT_LEAD
                        ELSE IF u \in member_emails THEN MEMBER
                        ELSE None]
         IN [code |-> OK,
             projects |-> projects \cup {new_id},
             members |-> [members EXCEPT ![new_id] = rows]]

\* add_member_to_project when lines 55-57 are left out: the row of a user who
\* is already a member is written again.
add_member_to_project_again(current_user, project_id, email, role, current_lead) ==
    LET guard == require_role({ADMIN, PROJECT_LEAD}, project_id, current_user)
        user_to_add == get_user_by_email(email)
        fail(c) == [code |-> c, members |-> members]
    IN IF guard.code # OK THEN fail(guard.code)
       ELSE IF guard.role = PROJECT_LEAD /\ role = PROJECT_LEAD
       THEN fail(HTTP_403_FORBIDDEN)
       ELSE IF user_to_add = None THEN fail(HTTP_404_NOT_FOUND)
       ELSE IF project_id \notin projects THEN fail(HTTP_500_INTERNAL)
       ELSE [code |-> OK,
             members |-> add_with_demotion(project_id, user_to_add, role, current_lead)]

\* members.add_member_to_project.
add_member_to_project(current_user, project_id, email, role, current_lead) ==
    LET guard == require_role({ADMIN, PROJECT_LEAD}, project_id, current_user)
        user_to_add == get_user_by_email(email)
        fail(c) == [code |-> c, members |-> members]
    IN IF guard.code # OK THEN fail(guard.code)
       ELSE IF guard.role = PROJECT_LEAD /\ role = PROJECT_LEAD
       THEN fail(HTTP_403_FORBIDDEN)
       ELSE IF user_to_add = None THEN fail(HTTP_404_NOT_FOUND)
       ELSE IF get_project_member(project_id, user_to_add) # None
       THEN fail(HTTP_400_BAD_REQUEST)
       \* the insert names a project that has no row: the foreign key fails
       \* at commit and the demotion is rolled back with it
       ELSE IF project_id \notin projects THEN fail(HTTP_500_INTERNAL)
       ELSE [code |-> OK,
             members |-> add_with_demotion(project_id, user_to_add, role, current_lead)]

\* update_project_member_role when the decorator admits the PROJECT_LEAD too.
update_project_member_role_by_lead(current_user, project_id, user_id, role, current_lead) ==
    LET guard == require_role({ADMIN, PROJECT_LEAD}, project_id, current_user)
        member_to_update == get_project_member(project_id, user_id)
        fail(c) == [code |-> c, members |-> members]
    IN IF guard.code # OK THEN fail(guard.code)
       ELSE IF member_to_update = None THEN fail(HTTP_404_NOT_FOUND)
       ELSE IF /\ member_to_update = PROJECT_LEAD
               /\ role = MEMBER
               /\ Cardinality(project_leads(project_id)) = 1
       THEN fail(HTTP_400_BAD_REQUEST)
       ELSE [code |-> OK,
             members |-> update_member_role(project_id, user_id, role, current_lead)]

\* members.update_project_member_role: the guard of the decorator runs before
\* get_project_member_from_path.
update_project_member_role(current_user, project_id, user_id, role, current_lead) ==
    LET guard == require_role({ADMIN}, project_id, current_user)
        member_to_update == get_project_member(project_id, user_id)
        fail(c) == [code |-> c, members |-> members]
    IN IF guard.code # OK THEN fail(guard.code)
       ELSE IF member_to_update = None THEN fail(HTTP_404_NOT_FOUND)
       ELSE IF /\ member_to_update = PROJECT_LEAD
               /\ role = MEMBER
               /\ Cardinality(project_leads(project_id)) = 1
       THEN fail(HTTP_400_BAD_REQUEST)
       ELSE [code |-> OK,
             members |-> update_member_role(project_id, user_id, role, current_lead)]

\* members.remove_member_from_project.
remove_member_from_project(current_user, project_id, user_id) ==
    LET guard == require_role({ADMIN, PROJECT_LEAD}, project_id, current_user)
        member_to_remove == get_project_member(project_id, user_id)
        fail(c) == [code |-> c, members |-> members]
    IN IF guard.code # OK THEN fail(guard.code)
       ELSE IF member_to_remove = None THEN fail(HTTP_404_NOT_FOUND)
       ELSE IF /\ member_to_remove = PROJECT_LEAD
               /\ Cardinality(project_leads(project_id)) = 1
       THEN fail(HTTP_400_BAD_REQUEST)
       ELSE [code |-> OK, members |-> remove_project_member(project_id, user_id)]

\* ------------------------------------------------------ membership actions

\* A project id not in use (uuid4 on insert).
FreeProjectIds == ProjectIds \ projects

CreateProject ==
    \E current_user \in Users, lead_email \in Emails \cup {None},
       member_emails \in SUBSET Emails :
        /\ FreeProjectIds # {}
        /\ LET new_id == CHOOSE p \in FreeProjectIds : \A q \in FreeProjectIds : p <= q
               out == create_project(current_user, new_id, lead_email, member_emails)
           IN /\ projects' = out.projects
              /\ members' = out.members
              /\ last' = committed("createProject", out.code)
        /\ UNCHANGED <<superusers, issues, calcVars, txVars, restVars>>

AddMember ==
    \E current_user \in Users, project_id \in ProjectIds, email \in Emails,
       role \in ProjectRole :
        \E current_lead \in current_lead_choices(project_id) :
            LET out == add_member_to_project(current_user, project_id, email, role,
                                             current_lead)
            IN /\ members' = out.members
               /\ last' = committed("addMember", out.code)
               /\ UNCHANGED <<superusers, projects, issues, calcVars, txVars, restVars>>

UpdateMemberRole ==
    \E current_user \in Users, project_id \in ProjectIds, user_id \in Users,
       role \in ProjectRole :
        \E current_lead \in current_lead_choices(project_id) :
            LET out == update_project_member_role(current_user, project_id, user_id,
                                                  role, current_lead)
            IN /\ members' = out.members
               /\ last' = committed("updateMemberRole", out.code)
               /\ UNCHANGED <<superusers, projects, issues, calcVars, txVars, restVars>>

RemoveMember ==
    \E current_user \in Users, project_id \in ProjectIds, user_id \in Users :
        LET out == remove_member_from_project(current_user, project_id, user_id)
        IN /\ members' = out.members
           /\ last' = committed("removeMember", out.code)
           /\ UNCHANGED <<superusers, projects, issues, calcVars, txVars, restVars>>

NextMembers == CreateProject \/ AddMember \/ UpdateMemberRole \/ RemoveMember

\* The membership subsystem: projects are created and their members managed.
SpecMembers == Init /\ [][NextMembers]_vars

\* ----------------------------------------------------------- issue queries

\* crud_issue.get_issue: whether the row exists; the row is issues[issue_id].
issue_exists(issue_id) == issue_id \in DOMAIN issues

\* What pydantic hands the handler for a field: None for an omitted one.
field_value(field) == IF field = Unset THEN None ELSE field

\* issues.check_admin_assignment: TRUE when it raises 400.
check_admin_assignment(current_user, issue_in_assignee_id) ==
    /\ current_user \in superusers
    /\ issue_in_assignee_id # None
    /\ issue_in_assignee_id = current_user

\* ------------------------------------------------------------ issue writes

\* crud_issue.create_issue with the reporter taken from the body: the
\* assignee named there is recorded as the reporter.
create_issue_reporter_from_body(new_id, issue_in, reporter_id) ==
    issues @@ (new_id :> [project_id |-> issue_in.project_id,
                          status |-> issue_in.status,
                          issue_type |-> issue_in.issue_type,
                          reporter_id |-> issue_in.assignee_id,
                          assignee_id |-> issue_in.assignee_id,
                          assignee_request_id |-> None])
\* crud_issue.create_issue: insert the row and commit.  The new row has no
\* pending request (the column defaults to null).
create_issue(new_id, issue_in, reporter_id) ==
    issues @@ (new_id :> [project_id |-> issue_in.project_id,
                          status |-> issue_in.status,
                          issue_type |-> issue_in.issue_type,
                          reporter_id |-> reporter_id,
                          assignee_id |-> issue_in.assignee_id,
                          assignee_request_id |-> None])

\* crud_issue.update_issue: every field the request mentions is written,
\* null included (exclude_unset keeps an explicit null).
update_issue_row(row, obj_in) ==
    [row EXCEPT
        !.status = IF obj_in.status = Unset THEN @ ELSE obj_in.status,
        !.issue_type = IF obj_in.issue_type = Unset THEN @ ELSE obj_in.issue_type,
        !.assignee_id = IF obj_in.assignee_id = Unset THEN @ ELSE obj_in.assignee_id]

\* The commit of crud_issue.update_issue: status and issue_type are NOT NULL
\* columns (models.Issue), a null in either fails the commit.
update_commit_fails(row) == row.status = None \/ row.issue_type = None

\* crud_issue.delete_issue when the filter on the id is left out: the first
\* row of the table is the one deleted.
delete_issue_unfiltered(issue_id) ==
    LET first == CHOOSE i \in DOMAIN issues : \A j \in DOMAIN issues : i <= j
    IN [i \in DOMAIN issues \ {first} |-> issues[i]]

\* crud_issue.delete_issue.
delete_issue(issue_id) == [i \in DOMAIN issues \ {issue_id} |-> issues[i]]

\* crud_issue.request_issue.
request_issue(issue_id, user) ==
    [issues EXCEPT ![issue_id].assignee_request_id = user]

\* crud_issue.approve_request when line 106 is left out: the request stays.
approve_request_keeps_pending(issue_id) ==
    IF issues[issue_id].assignee_request_id # None
    THEN [issues EXCEPT ![issue_id].assignee_id = issues[issue_id].assignee_request_id]
    ELSE issues

\* crud_issue.approve_request.
approve_request(issue_id) ==
    IF issues[issue_id].assignee_request_id # None
    THEN [issues EXCEPT ![issue_id].assignee_id = issues[issue_id].assignee_request_id,
                        ![issue_id].assignee_request_id = None]
    ELSE issues

\* crud_issue.reject_request when it clears the assignee as well.
reject_request_clears_assignee(issue_id) ==
    [issues EXCEPT ![issue_id].assignee_request_id = None,
                   ![issue_id].assignee_id = None]

\* crud_issue.reject_request.
reject_request(issue_id) ==
    [issues EXCEPT ![issue_id].assignee_request_id = None]

\* ---------------------------------------------------------- issue handlers

\* The role issues.create_new_issue computes for an actor it lets through.
creator_role(current_user, project_id) ==
    IF current_user \in superusers THEN ADMIN
    ELSE get_project_member(project_id, current_user)

\* create_new_issue lines 46-54 when a member's status and assignee are kept.
member_policy_keeps_input(issue_in) == issue_in

\* create_new_issue lines 52-54: a member's issue is a proposal, unassigned.
member_policy(issue_in) ==
    [issue_in EXCEPT !.status = PROPOSED, !.assignee_id = None]

\* create_new_issue lines 56-61 when a lead's PROPOSED is kept.
lead_policy_keeps_proposed(issue_in) == issue_in

\* create_new_issue lines 56-61: a lead's or admin's PROPOSED becomes TODO.
lead_policy(issue_in) ==
    IF issue_in.status = PROPOSED THEN [issue_in EXCEPT !.status = TODO]
    ELSE issue_in

\* create_new_issue lines 37-42 when the membership check is left out.
not_a_member_never(current_user, project_id) == FALSE

\* create_new_issue lines 37-42: TRUE when the actor is refused as no member.
not_a_member(current_user, project_id) ==
    /\ current_user \notin superusers
    /\ get_project_member(project_id, current_user) = None

\* issues.create_new_issue.  issue_in: [project_id, status, issue_type,
\* assignee_id]; an omitted status is PROPOSED and an omitted type TASK
\* (IssueCreate's defaults), an omitted assignee None.
create_new_issue(current_user, new_id, issue_in) ==
    LET fail(c) == [code |-> c, issues |-> issues]
        role == creator_role(current_user, issue_in.project_id)
    IN IF check_admin_assignment(current_user, issue_in.assignee_id)
       THEN fail(HTTP_400_BAD_REQUEST)
       ELSE IF not_a_member(current_user, issue_in.project_id)
       THEN fail(HTTP_403_FORBIDDEN)
       ELSE IF role = MEMBER /\ issue_in.issue_type \in {STORY, EPIC}
       THEN fail(HTTP_403_FORBIDDEN)
       \* the insert names a project that has no row: the foreign key fails
       ELSE IF issue_in.project_id \notin projects THEN fail(HTTP_500_INTERNAL)
       ELSE LET stored == IF role = MEMBER THEN member_policy(issue_in)
                          ELSE IF role \in {ADMIN, PROJECT_LEAD}
                          THEN lead_policy(issue_in)
                          ELSE issue_in
            IN [code |-> OK, issues |-> create_issue(new_id, stored, current_user)]

\* update_existing_issue lines 112-114: is_admin or is_lead.
is_admin_or_lead(current_user, issue_id) ==
    \/ current_user \in superusers
    \/ get_project_member(issues[issue_id].project_id, current_user) = PROJECT_LEAD

\* update_existing_issue lines 112-117: is_admin or is_lead or is_assignee.
may_update(current_user, issue_id) ==
    \/ is_admin_or_lead(current_user, issue_id)
    \/ issues[issue_id].assignee_id = current_user

\* update_existing_issue lines 119-122: TRUE when an actor who is neither
\* admin nor lead is refused for naming a type or an assignee.
restricted_change(current_user, issue_id, issue_in) ==
    /\ ~is_admin_or_lead(current_user, issue_id)
    /\ \/ field_value(issue_in.issue_type) # None
       \/ field_value(issue_in.assignee_id) # None

\* issues.update_existing_issue.  issue_in: [status, issue_type, assignee_id],
\* each Unset (omitted), None (an explicit null) or a value.
update_existing_issue(current_user, issue_id, issue_in) ==
    LET fail(c) == [code |-> c, issues |-> issues] IN
    IF ~issue_exists(issue_id) THEN fail(HTTP_404_NOT_FOUND)
    ELSE IF check_admin_assignment(current_user, field_value(issue_in.assignee_id))
    THEN fail(HTTP_400_BAD_REQUEST)
    ELSE IF ~may_update(current_user, issue_id) THEN fail(HTTP_403_FORBIDDEN)
    ELSE IF restricted_change(current_user, issue_id, issue_in)
    THEN fail(HTTP_403_FORBIDDEN)
    ELSE LET row == update_issue_row(issues[issue_id], issue_in) IN
         IF update_commit_fails(row) THEN fail(HTTP_500_INTERNAL)
         ELSE [code |-> OK, issues |-> [issues EXCEPT ![issue_id] = row]]

\* The detail of the 403 deps.require_role and deps.require_issue_role raise
\* for a non-superuser: the role is named when the row exists.  None when
\* the guard admits the user.
guard_detail(required_roles, project_id, current_user) ==
    LET member == get_project_member(project_id, current_user) IN
    IF current_user \in superusers THEN None
    ELSE IF member = None THEN <<"Not a member of this project">>
    ELSE IF member \notin required_roles
    THEN <<"User role is not authorized for this action", member>>
    ELSE None

\* get_member_from_issue_path when lines 127-129 are left out: reading the
\* project of a missing issue raises an AttributeError.
require_issue_role_unchecked(required_roles, issue_id, current_user) ==
    IF ~issue_exists(issue_id)
    THEN [code |-> HTTP_500_INTERNAL, role |-> None]
    ELSE LET member == get_project_member(issues[issue_id].project_id, current_user)
         IN IF current_user \in superusers
            THEN [code |-> OK, role |-> ADMIN]
            ELSE IF member = None \/ member \notin required_roles
            THEN [code |-> HTTP_403_FORBIDDEN, role |-> None]
            ELSE [code |-> OK, role |-> member]
\* deps.require_issue_role(required_roles).get_member_from_issue_path.
require_issue_role(required_roles, issue_id, current_user) ==
    IF ~issue_exists(issue_id)
    THEN [code |-> HTTP_404_NOT_FOUND, role |-> None]
    ELSE LET member == get_project_member(issues[issue_id].project_id, current_user)
         IN IF current_user \in superusers
            THEN [code |-> OK, role |-> ADMIN]
            ELSE IF member = None
            THEN [code |-> HTTP_403_FORBIDDEN, role |-> None]
            ELSE IF ADMIN \in required_roles /\ current_user \in superusers
            THEN [code |-> OK, role |-> member]
            ELSE IF member \notin required_roles
            THEN [code |-> HTTP_403_FORBIDDEN, role |-> None]
            ELSE [code |-> OK, role |-> member]

\* issues.delete_existing_issue.
delete_existing_issue(current_user, issue_id) ==
    LET fail(c) == [code |-> c, issues |-> issues]
        guard == require_issue_role({ADMIN, PROJECT_LEAD}, issue_id, current_user)
    IN IF ~issue_exists(issue_id) THEN fail(HTTP_404_NOT_FOUND)
       ELSE IF guard.code # OK THEN fail(guard.code)
       ELSE [code |-> OK, issues |-> delete_issue(issue_id)]

\* approve_proposal when line 161 is left out: any status is approved.
approve_proposal_repeatable(current_user, issue_id) ==
    LET guard == require_issue_role({ADMIN, PROJECT_LEAD}, issue_id, current_user)
    IN IF guard.code # OK THEN [code |-> guard.code, issues |-> issues]
       ELSE [code |-> OK,
             issues |-> [issues EXCEPT ![issue_id] =
                            update_issue_row(@, [status |-> TODO,
                                                 issue_type |-> Unset,
                                                 assignee_id |-> Unset])]]

\* issues.approve_proposal.
approve_proposal(current_user, issue_id) ==
    LET fail(c) == [code |-> c, issues |-> issues]
        guard == require_issue_role({ADMIN, PROJECT_LEAD}, issue_id, current_user)
    IN IF guard.code # OK THEN fail(guard.code)
       ELSE IF issues[issue_id].status # PROPOSED THEN fail(HTTP_400_BAD_REQUEST)
       ELSE [code |-> OK,
             issues |-> [issues EXCEPT ![issue_id] =
                            update_issue_row(@, [status |-> TODO,
                                                 issue_type |-> Unset,
                                                 assignee_id |-> Unset])]]

\* issues.reject_proposal.
reject_proposal(current_user, issue_id) ==
    LET fail(c) == [code |-> c, issues |-> issues]
        guard == require_issue_role({ADMIN, PROJECT_LEAD}, issue_id, current_user)
    IN IF guard.code # OK THEN fail(guard.code)
       ELSE IF issues[issue_id].status # PROPOSED THEN fail(HTTP_400_BAD_REQUEST)
       ELSE [code |-> OK, issues |-> delete_issue(issue_id)]

\* request_assignment when lines 196-197 are left out: a pending request is
\* replaced by the later requester.
request_assignment_overwrites(current_user, issue_id) ==
    LET fail(c) == [code |-> c, issues |-> issues] IN
    IF ~issue_exists(issue_id) THEN fail(HTTP_404_NOT_FOUND)
    ELSE IF issues[issue_id].assignee_id # None THEN fail(HTTP_400_BAD_REQUEST)
    ELSE [code |-> OK, issues |-> request_issue(issue_id, current_user)]

\* issues.request_assignment.
request_assignment(current_user, issue_id) ==
    LET fail(c) == [code |-> c, issues |-> issues] IN
    IF ~issue_exists(issue_id) THEN fail(HTTP_404_NOT_FOUND)
    ELSE IF issues[issue_id].assignee_id # None THEN fail(HTTP_400_BAD_REQUEST)
    ELSE IF issues[issue_id].assignee_request_id # None
    THEN fail(HTTP_400_BAD_REQUEST)
    ELSE [code |-> OK, issues |-> request_issue(issue_id, current_user)]

\* issues.approve_assignment.
approve_assignment(current_user, issue_id) ==
    LET fail(c) == [code |-> c, issues |-> issues]
        guard == require_issue_role({ADMIN, PROJECT_LEAD}, issue_id, current_user)
    IN IF guard.code # OK THEN fail(guard.code)
       ELSE IF issues[issue_id].assignee_request_id = None
       THEN fail(HTTP_400_BAD_REQUEST)
       ELSE [code |-> OK, issues |-> approve_request(issue_id)]

\* reject_assignment with the request state looked at before the guard.
reject_assignment_precondition_first(current_user, issue_id) ==
    LET fail(c) == [code |-> c, issues |-> issues]
        guard == require_issue_role({ADMIN, PROJECT_LEAD}, issue_id, current_user)
    IN IF ~issue_exists(issue_id) THEN fail(HTTP_404_NOT_FOUND)
       ELSE IF issues[issue_id].assignee_request_id = None
       THEN fail(HTTP_400_BAD_REQUEST)
       ELSE IF guard.code # OK THEN fail(guard.code)
       ELSE [code |-> OK, issues |-> reject_request(issue_id)]
\* issues.reject_assignment.
reject_assignment(current_user, issue_id) ==
    LET fail(c) == [code |-> c, issues |-> issues]
        guard == require_issue_role({ADMIN, PROJECT_LEAD}, issue_id, current_user)
    IN IF guard.code # OK THEN fail(guard.code)
       ELSE IF issues[issue_id].assignee_request_id = None
       THEN fail(HTTP_400_BAD_REQUEST)
       ELSE [code |-> OK, issues |-> reject_request(issue_id)]

\* crud_issue.get_issues_by_project: the ids of the project's rows.
get_issues_by_project(project_id) ==
    {i \in DOMAIN issues : issues[i].project_id = project_id}

\* get_issues_for_project when lines 80-85 are left out: nothing is hidden.
get_issues_for_project_unfiltered(current_user, project_id) ==
    LET guard == require_role({ADMIN, PROJECT_LEAD, MEMBER}, project_id, current_user)
    IN IF guard.code # OK THEN [code |-> guard.code, issues |-> {}]
       ELSE [code |-> OK, issues |-> get_issues_by_project(project_id)]

\* issues.get_issues_for_project: the ids of the issues in the answer.
get_issues_for_project(current_user, project_id) ==
    LET guard == require_role({ADMIN, PROJECT_LEAD, MEMBER}, project_id, current_user)
    IN IF guard.code # OK THEN [code |-> guard.code, issues |-> {}]
       ELSE IF guard.role = MEMBER
       THEN [code |-> OK,
             issues |-> {i \in get_issues_by_project(project_id) :
                            \/ issues[i].status # PROPOSED
                            \/ issues[i].reporter_id = current_user}]
       ELSE [code |-> OK, issues |-> get_issues_by_project(project_id)]

\* crud_project._build_project_details without the progress fields, for a
\* project whose issues are the rows of project_issues: the issue summary,
\* the lead and the issues of the answer.
build_project_details(project_id, project_issues) ==
    LET count(st) == Cardinality({i \in DOMAIN project_issues :
                                    project_issues[i].status = st})
    IN [id |-> project_id,
        issue_summary |->
            [total |-> Cardinality({i \in DOMAIN project_issues :
                                      project_issues[i].status # PROPOSED}),
             todo |-> count(TODO),
             in_progress |-> count(IN_PROGRESS),
             in_review |-> count(IN_REVIEW),
             done |-> count(DONE)],
        project_lead |-> project_leads(project_id),
        members |-> members[project_id],
        issues |-> project_issues]

\* projects.get_user_projects over the issue table db_issues: every project
\* for a superuser (crud_project.get_all_projects), the projects the user
\* has a row in otherwise (crud_project.get_projects_for_user), each with
\* all the issues of the project (joinedload(Project.issues)).
get_user_projects(db_issues, current_user) ==
    LET project_issues(p) ==
            [i \in {j \in DOMAIN db_issues : db_issues[j].project_id = p}
                |-> db_issues[i]]
        listed == IF current_user \in superusers THEN projects
                  ELSE {p \in projects : members[p][current_user] # None}
    IN {build_project_details(p, project_issues(p)) : p \in listed}

\* ----------------------------------------------------------- issue actions

\* The bodies IssueCreate accepts.
IssueCreateBodies ==
    [project_id : ProjectIds, status : IssueStatus, issue_type : IssueType,
     assignee_id : Users \cup {None}]

\* The bodies IssueUpdate accepts: every field is optional and nullable.
IssueUpdateBodies ==
    [status : IssueStatus \cup {Unset, None},
     issue_type : IssueType \cup {Unset, None},
     assignee_id : Users \cup {Unset, None}]

\* An issue id not in use (uuid4 on insert).
FreeIssueIds == IssueIds \ DOMAIN issues

\* What an issue handler leaves alone.
IssueFrame == UNCHANGED <<superusers, projects, members, calcVars, txVars, restVars>>

CreateIssue ==
    \E current_user \in Users, issue_in \in IssueCreateBodies :
        /\ FreeIssueIds # {}
        /\ LET new_id == CHOOSE i \in FreeIssueIds : \A j \in FreeIssueIds : i <= j
               out == create_new_issue(current_user, new_id, issue_in)
           IN /\ issues' = out.issues
              /\ last' = committed("createIssue", out.code)
        /\ IssueFrame

UpdateIssue ==
    \E current_user \in Users, issue_id \in IssueIds, issue_in \in IssueUpdateBodies :
        LET out == update_existing_issue(current_user, issue_id, issue_in)
        IN /\ issues' = out.issues
           /\ last' = committed("updateIssue", out.code)
           /\ IssueFrame

DeleteIssue ==
    \E current_user \in Users, issue_id \in IssueIds :
        LET out == delete_existing_issue(current_user, issue_id)
        IN /\ issues' = out.issues
           /\ last' = committed("deleteIssue", out.code)
           /\ IssueFrame

ApproveProposal ==
    \E current_user \in Users, issue_id \in IssueIds :
        LET out == approve_proposal(current_user, issue_id)
        IN /\ issues' = out.issues
           /\ last' = committed("approveProposal", out.code)
           /\ IssueFrame

RejectProposal ==
    \E current_user \in Users, issue_id \in IssueIds :
        LET out == reject_proposal(current_user, issue_id)
        IN /\ issues' = out.issues
           /\ last' = committed("rejectProposal", out.code)
           /\ IssueFrame

RequestAssignment ==
    \E current_user \in Users, issue_id \in IssueIds :
        LET out == request_assignment(current_user, issue_id)
        IN /\ issues' = out.issues
           /\ last' = committed("requestAssignment", out.code)
           /\ IssueFrame

ApproveAssignment ==
    \E current_user \in Users, issue_id \in IssueIds :
        LET out == approve_assignment(current_user, issue_id)
        IN /\ issues' = out.issues
           /\ last' = committed("approveAssignment", out.code)
           /\ IssueFrame

RejectAssignment ==
    \E current_user \in Users, issue_id \in IssueIds :
        LET out == reject_assignment(current_user, issue_id)
        IN /\ issues' = out.issues
           /\ last' = committed("rejectAssignment", out.code)
           /\ IssueFrame

NextIssues ==
    \/ CreateIssue
    \/ UpdateIssue
    \/ DeleteIssue
    \/ ApproveProposal
    \/ RejectProposal
    \/ RequestAssignment
    \/ ApproveAssignment
    \/ RejectAssignment

\* The memberships of project 1 the issue workflow is explored under, u1
\* being the superuser: a lead with a member; a superuser holding a MEMBER
\* row beside a membership ADMIN and the lead; a lead with an outsider.
\* Each is what create_project followed by role updates leaves behind.
Casts ==
    { [u1 |-> None, u2 |-> PROJECT_LEAD, u3 |-> MEMBER],
      [u1 |-> MEMBER, u2 |-> ADMIN, u3 |-> PROJECT_LEAD],
      [u1 |-> None, u2 |-> PROJECT_LEAD, u3 |-> None] }

\* A database in which project 1 has been set up and holds no issue yet.
InitIssues ==
    /\ superusers = {DefaultAdmin}
    /\ projects = {1}
    /\ \E cast \in Casts :
        members = [p \in ProjectIds |-> IF p = 1 THEN cast ELSE NoMembers]
    /\ issues = <<>>
    /\ last = "setup"
    /\ NoCalculation
    /\ NoRequests

\* The issue workflow of a project whose memberships stay as set up.
SpecIssues == InitIssues /\ [][NextIssues]_vars

\* ------------------------------------------------------------ issue board

\* The ids of the issues of a board.
BoardIds == 1 .. MaxBoardIssues

\* A board id not in use.
FreeBoardIds == BoardIds \ DOMAIN issues

\* The bodies sent to createIssue on a board: an unassigned TASK, its status
\* left at the default PROPOSED or set to IN_PROGRESS.
BoardCreateBodies ==
    [project_id : ProjectIds, status : {PROPOSED, IN_PROGRESS},
     issue_type : {TASK}, assignee_id : {None}]

\* The memberships of project 1 a board is explored under, u1 being the
\* superuser: the creator leading two members, and a lead with one member.
BoardCasts ==
    { [u1 |-> PROJECT_LEAD, u2 |-> MEMBER, u3 |-> MEMBER],
      [u1 |-> None, u2 |-> PROJECT_LEAD, u3 |-> MEMBER] }

InitBoard ==
    /\ superusers = {DefaultAdmin}
    /\ projects = {1}
    /\ \E cast \in BoardCasts :
        members = [p \in ProjectIds |-> IF p = 1 THEN cast ELSE NoMembers]
    /\ issues = <<>>
    /\ last = "setup"
    /\ NoCalculation
    /\ NoRequests

BoardCreateIssue ==
    \E current_user \in Users, issue_in \in BoardCreateBodies :
        /\ FreeBoardIds # {}
        /\ LET new_id == CHOOSE i \in FreeBoardIds : \A j \in FreeBoardIds : i <= j
               out == create_new_issue(current_user, new_id, issue_in)
           IN /\ issues' = out.issues
              /\ last' = committed("createIssue", out.code)
        /\ IssueFrame

BoardApproveProposal ==
    \E current_user \in Users, issue_id \in BoardIds :
        LET out == approve_proposal(current_user, issue_id)
        IN /\ issues' = out.issues
           /\ last' = committed("approveProposal", out.code)
           /\ IssueFrame

BoardRejectProposal ==
    \E current_user \in Users, issue_id \in BoardIds :
        LET out == reject_proposal(current_user, issue_id)
        IN /\ issues' = out.issues
           /\ last' = committed("rejectProposal", out.code)
           /\ IssueFrame

BoardDeleteIssue ==
    \E current_user \in Users, issue_id \in BoardIds :
        LET out == delete_existing_issue(current_user, issue_id)
        IN /\ issues' = out.issues
           /\ last' = committed("deleteIssue", out.code)
           /\ IssueFrame

NextBoard ==
    \/ BoardCreateIssue
    \/ BoardApproveProposal
    \/ BoardRejectProposal
    \/ BoardDeleteIssue

\* Proposals made, reviewed and listed on a board of several issues.
SpecBoard == InitBoard /\ [][NextBoard]_vars

\* ---------------------------------------------------------------- progress

\* The status of a phase that calculate_phase_progress compares with.
COMPLETED == "COMPLETED"
\* The statuses of a phase.
PhaseStatus == {"NOT_STARTED", IN_PROGRESS, COMPLETED}

\* A Python float, held as the fraction num/den it stands for.  The floats
\* of the calculation are quotients of two counts times 100.0; the fraction
\* is exact where the float carries a rounding error of at most two units
\* in the last place.
Ratio(n, d) == [num |-> n, den |-> d]

\* Python's round(x): the nearest integer, a tie going to the even one.
round(x) ==
    LET floor == x.num \div x.den
        rest == x.num - floor * x.den
    IN IF 2 * rest < x.den THEN floor
       ELSE IF 2 * rest > x.den THEN floor + 1
       ELSE IF floor % 2 = 0 THEN floor ELSE floor + 1

\* The share of all the issues handed in that are DONE, whatever their phase.
calculate_phase_progress_of_project(phase, issue_list) ==
    LET total_issues == Len(issue_list)
        done_issues == Len(SelectSeq(issue_list, LAMBDA i : i.status = DONE))
    IN IF total_issues = 0
       THEN IF phase.status = COMPLETED THEN Ratio(100, 1) ELSE Ratio(0, 1)
       ELSE Ratio(done_issues * 100, total_issues)
calculate_phase_progress(phase, issue_list) ==
    LET issues_in_phase == SelectSeq(issue_list, LAMBDA i : i.phase_id = phase.id)
        total_issues == Len(issues_in_phase)
        done_issues == Len(SelectSeq(issues_in_phase, LAMBDA i : i.status = DONE))
    IN IF total_issues = 0
       THEN IF phase.status = COMPLETED THEN Ratio(100, 1) ELSE Ratio(0, 1)
       ELSE Ratio(done_issues * 100, total_issues)

\* The issue-based progress, whether or not the project has phases.
calculate_project_progress_by_issues(phases, issue_list) ==
    LET total_active_issues ==
            Len(SelectSeq(issue_list, LAMBDA i : i.status # PROPOSED))
        done_issues == Len(SelectSeq(issue_list, LAMBDA i : i.status = DONE))
    IN IF total_active_issues > 0
       THEN Ratio(done_issues * 100, total_active_issues)
       ELSE Ratio(0, 1)
calculate_project_progress_by_phases(phases, issue_list) ==
    IF phases = <<>>
    THEN LET total_active_issues ==
                 Len(SelectSeq(issue_list, LAMBDA i : i.status # PROPOSED))
             done_issues == Len(SelectSeq(issue_list, LAMBDA i : i.status = DONE))
         IN IF total_active_issues > 0
            THEN Ratio(done_issues * 100, total_active_issues)
            ELSE Ratio(0, 1)
    ELSE LET total_phases == Len(phases)
             completed_phases_count ==
                 Cardinality({k \in 1..Len(phases) :
                     round(calculate_phase_progress(phases[k], issue_list)) >= 100})
         IN Ratio(completed_phases_count * 100, total_phases)

\* Project.progress, the issue-based progress of the project.
project_progress(issue_list) ==
    LET total_active_issues ==
            Len(SelectSeq(issue_list, LAMBDA i : i.status # PROPOSED))
        done_issues == Len(SelectSeq(issue_list, LAMBDA i : i.status = DONE))
    IN IF total_active_issues > 0
       THEN Ratio(done_issues * 100, total_active_issues)
       ELSE Ratio(0, 1)

\* crud_admin.calculate_phase_progress, the phase-based progress of the
\* executive dashboard: a phase counts as completed when it has issues and
\* all of them are DONE; a phase without issues is skipped, whatever its
\* status.
dashboard_phase_progress(phases, issue_list) ==
    IF phases = <<>>
    THEN project_progress(issue_list)
    ELSE LET total_phases == Len(phases)
             issues_in_phase(k) ==
                 SelectSeq(issue_list, LAMBDA i : i.phase_id = phases[k].id)
             done_issues_in_phase(k) ==
                 Len(SelectSeq(issues_in_phase(k), LAMBDA i : i.status = DONE))
             completed_phases ==
                 Cardinality({k \in 1..Len(phases) :
                     /\ issues_in_phase(k) # <<>>
                     /\ done_issues_in_phase(k) = Len(issues_in_phase(k))
                     /\ Len(issues_in_phase(k)) > 0})
         IN Ratio(completed_phases * 100, total_phases)

PhaseIds == 1..MaxPhases
\* The phase_id of an issue that is in no phase (a null column).
NoPhase == 0

\* The phases of a project: rows with distinct ids, each in any status.
PhaseLists ==
    { [k \in 1..n |-> [id |-> k, status |-> st[k]]] :
        n \in 0..MaxPhases, st \in [1..MaxPhases -> PhaseStatus] }

\* The calculation looks at an issue's phase and asks of its status only
\* whether it is DONE and whether it is PROPOSED: IN_PROGRESS stands for
\* the three statuses that are neither.
ProgressIssues ==
    [phase_id : PhaseIds \cup {NoPhase}, status : {PROPOSED, IN_PROGRESS, DONE}]

\* A backlog of BacklogSize issues in phase 1 of which the first d are DONE.
Backlog(d) ==
    [k \in 1..BacklogSize |->
        [phase_id |-> 1, status |-> IF k <= d THEN DONE ELSE IN_PROGRESS]]

\* The issues of a project: every short list, and the long backlogs with
\* at most two issues not DONE.
IssueLists ==
    UNION {[1..n -> ProgressIssues] : n \in 0..MaxProgressIssues}
        \cup {Backlog(d) : d \in (BacklogSize - 2)..BacklogSize}

InitProgress ==
    /\ superusers = {DefaultAdmin}
    /\ projects = {1}
    /\ members = [p \in ProjectIds |-> NoMembers]
    /\ issues = <<>>
    /\ last = "setup"
    /\ NoRequests
    /\ project_phases \in PhaseLists
    /\ all_project_issues \in IssueLists
    /\ progress = NotCalculated

\* What a progress calculation leaves alone: it only reads.
ProgressFrame ==
    UNCHANGED <<superusers, projects, members, issues, last,
                project_phases, all_project_issues, txVars, restVars>>

PhaseProgress ==
    \E k \in 1..Len(project_phases) :
        /\ progress' = [of |-> "phase", phase |-> k,
                        value |-> calculate_phase_progress(project_phases[k],
                                                           all_project_issues)]
        /\ ProgressFrame

ProjectProgress ==
    /\ progress' = [of |-> "project",
                    value |-> calculate_project_progress_by_phases(
                                  project_phases, all_project_issues)]
    /\ ProgressFrame

\* crud_admin.get_dashboard_data: project.phase_progress of the dashboard.
DashboardProgress ==
    /\ progress' = [of |-> "dashboard",
                    value |-> dashboard_phase_progress(project_phases,
                                                       all_project_issues)]
    /\ ProgressFrame

NextProgress == PhaseProgress \/ ProjectProgress \/ DashboardProgress

\* The progress calculation applied to every project of the bounds.
SpecProgress == InitProgress /\ [][NextProgress]_vars

\* ---------------------------------------------------- concurrent hand-over
\* Requests that make a user the PROJECT_LEAD, one database session each
\* (deps.get_db), on a PostgreSQL engine created without an isolation level
\* (db/base.py): READ COMMITTED.  A statement reads what has been committed
\* when it runs; the writes a session has staged are flushed by db.commit()
\* and become visible to the others at that commit; an UPDATE of a row that
\* another session has written waits for that session and is then applied
\* to the row as committed.  The requests are sent by the superuser, whom
\* every guard lets pass.

HandoverOps == {"addMember", "updateMemberRole"}

\* The demotion of the lead read and the promotion of the user, as the
\* handler stages them in its session.  The unit of work writes a row only
\* if an attribute has changed since it was loaded.
stage_handover(op, user_id, loaded_role, current_lead) ==
    LET demotion ==
            IF current_lead # None /\ (op = "addMember" \/ current_lead # user_id)
            THEN << [user_id |-> current_lead, role |-> MEMBER, insert |-> FALSE] >>
            ELSE << >>
        promotion ==
            IF op = "addMember"
            THEN << [user_id |-> user_id, role |-> PROJECT_LEAD, insert |-> TRUE] >>
            ELSE IF loaded_role # PROJECT_LEAD
            THEN << [user_id |-> user_id, role |-> PROJECT_LEAD, insert |-> FALSE] >>
            ELSE << >>
    IN demotion \o promotion

\* A commit after every statement: the first staged write is committed and
\* the others stay staged.
flush_one_at_a_time(dirty, rows) ==
    IF dirty = << >>
    THEN [rows |-> rows, dirty |-> << >>]
    ELSE IF Head(dirty).insert /\ rows[Head(dirty).user_id] # None
    THEN [rows |-> rows, dirty |-> << >>]
    ELSE [rows |-> [rows EXCEPT ![Head(dirty).user_id] = Head(dirty).role],
          dirty |-> Tail(dirty)]
\* db.commit(): the staged writes are flushed and committed together.  The
\* INSERT of a row whose key (user_id, project_id) exists raises an
\* IntegrityError and the transaction is rolled back.
flush(dirty, rows) ==
    IF \E k \in DOMAIN dirty : dirty[k].insert /\ rows[dirty[k].user_id] # None
    THEN [rows |-> rows, dirty |-> << >>]
    ELSE [rows |-> [u \in Users |->
                        IF \E k \in DOMAIN dirty : dirty[k].user_id = u
                        THEN dirty[CHOOSE k \in DOMAIN dirty : dirty[k].user_id = u].role
                        ELSE rows[u]],
          dirty |-> << >>]

\* The hand-overs in flight: the lead a session has read and staged for
\* demotion, and the user it has staged as the new lead.
handovers_in_flight ==
    { <<sessions[r].current_lead, sessions[r].user_id>> :
        r \in {q \in Requests :
                  /\ sessions[q].pc = "staged"
                  /\ sessions[q].current_lead \notin {None, sessions[q].user_id}} }

\* The projects with exactly one PROJECT_LEAD among their members.
HandoverCasts ==
    {cast \in [Users -> ProjectRole \cup {None}] :
        Cardinality({u \in Users : cast[u] = PROJECT_LEAD}) = 1}

InitHandover ==
    /\ superusers = {DefaultAdmin}
    /\ projects = {1}
    /\ \E cast \in HandoverCasts :
        members = [p \in ProjectIds |-> IF p = 1 THEN cast ELSE NoMembers]
    /\ issues = <<>>
    /\ last = "setup"
    /\ NoCalculation
    /\ NoRequests

\* The request opens its session and looks up the row of the user: the add
\* goes on if there is none (members.py 55-57), the update if there is one
\* (get_project_member_from_path).  A request that raises here has written
\* nothing and its session is closed.
LoadMember(r) ==
    /\ sessions[r].pc = "closed"
    /\ \E op \in HandoverOps, project_id \in projects, user_id \in Users :
        LET loaded_role == get_project_member(project_id, user_id) IN
        /\ (op = "addMember") <=> (loaded_role = None)
        /\ sessions' = [sessions EXCEPT ![r] =
                [pc |-> "loaded", op |-> op, project_id |-> project_id,
                 user_id |-> user_id, loaded_role |-> loaded_role]]
    /\ UNCHANGED <<superusers, projects, members, issues, last, calcVars, observed, restVars>>

\* The query for the current lead (members.py 61, crud_member.py 43-50),
\* after which the session holds the demotion and the promotion.
FindCurrentLead(r) ==
    /\ sessions[r].pc = "loaded"
    /\ LET s == sessions[r] IN
       \E current_lead \in current_lead_choices(s.project_id) :
        sessions' = [sessions EXCEPT ![r] =
            [pc |-> "staged", op |-> s.op, project_id |-> s.project_id,
             user_id |-> s.user_id, loaded_role |-> s.loaded_role,
             current_lead |-> current_lead,
             dirty |-> stage_handover(s.op, s.user_id, s.loaded_role, current_lead)]]
    /\ UNCHANGED <<superusers, projects, members, issues, last, calcVars, observed, restVars>>

\* db.commit() (crud_member.py 23 and 57), after which the request returns
\* and its session is closed.
Commit(r) ==
    /\ sessions[r].pc = "staged"
    /\ LET s == sessions[r]
           out == flush(s.dirty, members[s.project_id])
       IN /\ members' = [members EXCEPT ![s.project_id] = out.rows]
          /\ sessions' = [sessions EXCEPT ![r] =
                 IF out.dirty = << >> THEN Closed ELSE [s EXCEPT !.dirty = out.dirty]]
          /\ last' = IF out.rows # members[s.project_id] THEN s.op ELSE last
    /\ UNCHANGED <<superusers, projects, issues, calcVars, observed, restVars>>

\* A read by another request: GET /projects/{project_id}/members returns
\* the rows as committed.
ReadMembers ==
    /\ \E project_id \in projects :
        observed' = [rows |-> members[project_id], during |-> handovers_in_flight]
    /\ UNCHANGED <<superusers, projects, members, issues, last, calcVars, sessions, restVars>>

\* One hand-over at a time, with reads running alongside it.
NextHandover ==
    \/ \E r \in {"r1"} : LoadMember(r) \/ FindCurrentLead(r) \/ Commit(r)
    \/ ReadMembers

SpecHandover == InitHandover /\ [][NextHandover]_vars

\* Two hand-overs in flight at the same time.
NextRace ==
    \E r \in Requests : LoadMember(r) \/ FindCurrentLead(r) \/ Commit(r)

SpecRace == InitHandover /\ [][NextRace]_vars

\* ------------------------------------------------------------------ phases

PhaseRowIds == 1..MaxPhaseRows
\* The orders a request can name, and the largest order a new phase gets.
PhaseOrders == 1..MaxPhaseRows
MaxOrder == MaxPhaseRows + 1

\* crud_phase.get_phases_by_project: the ids of the project's rows.
get_phases_by_project(project_id) ==
    {k \in DOMAIN phase_table : phase_table[k].project_id = project_id}

\* func.max(Phase.order) over the project's rows, or 0.
max_order(project_id) ==
    LET orders == {phase_table[k].order : k \in get_phases_by_project(project_id)}
    IN IF orders = {} THEN 0 ELSE CHOOSE o \in orders : \A q \in orders : q <= o

\* crud_phase.create_phase.
create_phase(new_id, project_id) ==
    phase_table @@ (new_id :> [project_id |-> project_id,
                               order |-> max_order(project_id) + 1])

\* phases.create_new_phase.
create_new_phase(current_user, new_id, project_id) ==
    LET guard == require_role({ADMIN, PROJECT_LEAD}, project_id, current_user)
    IN IF guard.code # OK THEN [code |-> guard.code, phase_table |-> phase_table]
       ELSE [code |-> OK, phase_table |-> create_phase(new_id, project_id)]

\* crud_phase.update_phases_order: one UPDATE per entry of the list, in its
\* order, each on the row with that id if it is a row of the project.
RECURSIVE update_phases_order(_, _, _)
update_phases_order(table, project_id, order_updates) ==
    IF order_updates = << >> THEN table
    ELSE LET update == Head(order_updates)
             hit == /\ update.id \in DOMAIN table
                    /\ table[update.id].project_id = project_id
             written == IF hit
                        THEN [table EXCEPT ![update.id].order = update.order]
                        ELSE table
         IN update_phases_order(written, project_id, Tail(order_updates))

\* phases.reorder_phases.
reorder_phases(current_user, project_id, order_updates) ==
    LET guard == require_role({ADMIN, PROJECT_LEAD}, project_id, current_user)
    IN IF guard.code # OK THEN [code |-> guard.code, phase_table |-> phase_table]
       ELSE [code |-> OK,
             phase_table |-> update_phases_order(phase_table, project_id,
                                                 order_updates)]

\* deps.require_phase_role(required_roles): the guard keyed by the phase of
\* the path, which answers for the project of the phase.
require_phase_role(required_roles, phase_id, current_user) ==
    IF phase_id \notin DOMAIN phase_table
    THEN [code |-> HTTP_404_NOT_FOUND, role |-> None]
    ELSE require_role(required_roles, phase_table[phase_id].project_id, current_user)

\* The foreign key issues.phase_id: the issues that referenced a deleted
\* phase keep existing with a null phase_id.
phase_set_null(deleted) ==
    [i \in {j \in DOMAIN issue_phase : issue_phase[j] \notin deleted}
        |-> issue_phase[i]]

\* crud_phase.delete_phase with the filter on the project instead of the
\* id: every phase of the project of the phase goes.
delete_phase_of_project(phase_id) ==
    [k \in DOMAIN phase_table \
            get_phases_by_project(phase_table[phase_id].project_id)
        |-> phase_table[k]]
\* crud_phase.delete_phase.
delete_phase(phase_id) ==
    [k \in DOMAIN phase_table \ {phase_id} |-> phase_table[k]]

\* phases.delete_phase.
delete_phase_request(current_user, phase_id) ==
    LET fail(c) == [code |-> c, phase_table |-> phase_table,
                    issue_phase |-> issue_phase]
        guard == require_phase_role({ADMIN, PROJECT_LEAD}, phase_id, current_user)
    IN IF guard.code # OK THEN fail(guard.code)
       ELSE LET kept == delete_phase(phase_id) IN
            [code |-> OK, phase_table |-> kept,
             issue_phase |-> phase_set_null(DOMAIN phase_table \ DOMAIN kept)]

\* issues.update_existing_issue with a body that names the phase only:
\* crud_issue.update_issue writes phase_id, and the commit fails on the id
\* of no phase.
update_issue_phase(current_user, issue_id, phase_id) ==
    LET fail(c) == [code |-> c, issue_phase |-> issue_phase] IN
    IF ~issue_exists(issue_id) THEN fail(HTTP_404_NOT_FOUND)
    ELSE IF ~may_update(current_user, issue_id) THEN fail(HTTP_403_FORBIDDEN)
    ELSE IF phase_id = NoPhase
    THEN [code |-> OK,
          issue_phase |-> [i \in DOMAIN issue_phase \ {issue_id} |-> issue_phase[i]]]
    ELSE IF phase_id \notin DOMAIN phase_table THEN fail(HTTP_500_INTERNAL)
    ELSE [code |-> OK,
          issue_phase |-> [i \in DOMAIN issue_phase \cup {issue_id} |->
                              IF i = issue_id THEN phase_id ELSE issue_phase[i]]]

\* The phases that go with a project: all of its own.
phases_cascade(project_id) == get_phases_by_project(project_id)

\* crud_project.delete_project without the cascade to the issues: only the
\* project and its memberships go.
delete_project_keeps_issues(project_id) ==
    [projects |-> projects \ {project_id},
     members |-> [members EXCEPT ![project_id] = NoMembers],
     issues |-> issues,
     phase_table |-> [k \in DOMAIN phase_table \ phases_cascade(project_id)
                        |-> phase_table[k]],
     issue_phase |-> phase_set_null(phases_cascade(project_id))]
\* crud_project.delete_project: db.delete(project) takes the memberships
\* and the issues with it (models.Project: cascade="all, delete-orphan").
delete_project(project_id) ==
    LET gone_issues == get_issues_by_project(project_id)
        gone_phases == phases_cascade(project_id)
        nulled == phase_set_null(gone_phases)
    IN [projects |-> projects \ {project_id},
        members |-> [members EXCEPT ![project_id] = NoMembers],
        issues |-> [i \in DOMAIN issues \ gone_issues |-> issues[i]],
        phase_table |-> [k \in DOMAIN phase_table \ gone_phases |-> phase_table[k]],
        issue_phase |-> [i \in DOMAIN nulled \ gone_issues |-> nulled[i]]]

\* projects.delete_project: superusers only.  The branch for a missing
\* project names status.HTTP_404, which does not exist: an AttributeError.
delete_project_request(current_user, project_id) ==
    LET same == [projects |-> projects, members |-> members, issues |-> issues,
                 phase_table |-> phase_table, issue_phase |-> issue_phase]
    IN IF get_current_superuser(current_user) # OK
       THEN [code |-> HTTP_403_FORBIDDEN, db |-> same]
       ELSE IF project_id \notin projects
       THEN [code |-> HTTP_500_INTERNAL, db |-> same]
       ELSE [code |-> OK, db |-> delete_project(project_id)]

\* Two projects side by side.
PhaseProjects == 1..(MaxProjects + 1)

\* The lists of PhaseOrderUpdate a reorder request carries.
OrderUpdates ==
    UNION {[1..n -> [id : PhaseRowIds, order : PhaseOrders]] : n \in 1..2}

\* A phase id not in use (uuid4 on insert).
FreePhaseIds == PhaseRowIds \ DOMAIN phase_table

\* Two projects, led by u2 and by u3, with issues and no phase yet.
InitPhases ==
    /\ superusers = {DefaultAdmin}
    /\ projects = PhaseProjects
    /\ members = [p \in PhaseProjects |->
                    IF p = 1
                    THEN [u1 |-> None, u2 |-> PROJECT_LEAD, u3 |-> MEMBER]
                    ELSE [u1 |-> None, u2 |-> None, u3 |-> PROJECT_LEAD]]
    /\ issues = [i \in 1..3 |->
                    [project_id |-> IF i = 3 THEN 2 ELSE 1,
                     status |-> IF i = 1 THEN DONE ELSE TODO,
                     issue_type |-> TASK,
                     reporter_id |-> IF i = 3 THEN "u3" ELSE "u2",
                     assignee_id |-> None,
                     assignee_request_id |-> None]]
    /\ last = "setup"
    /\ NoCalculation
    /\ NoRequests

\* What the phase requests leave alone.
PhaseFrame == UNCHANGED <<superusers, accounts, calcVars, txVars>>

CreatePhase ==
    \E current_user \in Users, project_id \in projects :
        /\ FreePhaseIds # {}
        /\ max_order(project_id) < MaxOrder
        /\ LET new_id == CHOOSE k \in FreePhaseIds : \A j \in FreePhaseIds : k <= j
               out == create_new_phase(current_user, new_id, project_id)
           IN /\ phase_table' = out.phase_table
              /\ last' = committed("createPhase", out.code)
        /\ UNCHANGED <<projects, members, issues, issue_phase>>
        /\ PhaseFrame

ReorderPhases ==
    \E current_user \in Users, project_id \in projects,
       order_updates \in OrderUpdates :
        LET out == reorder_phases(current_user, project_id, order_updates)
        IN /\ phase_table' = out.phase_table
           /\ last' = committed("reorderPhases", out.code)
           /\ UNCHANGED <<projects, members, issues, issue_phase>>
           /\ PhaseFrame

DeletePhase ==
    \E current_user \in Users, phase_id \in PhaseRowIds :
        LET out == delete_phase_request(current_user, phase_id)
        IN /\ phase_table' = out.phase_table
           /\ issue_phase' = out.issue_phase
           /\ last' = committed("deletePhase", out.code)
           /\ UNCHANGED <<projects, members, issues>>
           /\ PhaseFrame

UpdateIssuePhase ==
    \E current_user \in Users, issue_id \in DOMAIN issues,
       phase_id \in PhaseRowIds \cup {NoPhase} :
        LET out == update_issue_phase(current_user, issue_id, phase_id)
        IN /\ issue_phase' = out.issue_phase
           /\ last' = committed("updateIssue", out.code)
           /\ UNCHANGED <<projects, members, issues, phase_table>>
           /\ PhaseFrame

DeleteProject ==
    \E current_user \in Users, project_id \in PhaseProjects :
        LET out == delete_project_request(current_user, project_id)
        IN /\ projects' = out.db.projects
           /\ members' = out.db.members
           /\ issues' = out.db.issues
           /\ phase_table' = out.db.phase_table
           /\ issue_phase' = out.db.issue_phase
           /\ last' = committed("deleteProject", out.code)
           /\ PhaseFrame

NextPhases ==
    \/ CreatePhase
    \/ ReorderPhases
    \/ DeletePhase
    \/ UpdateIssuePhase
    \/ DeleteProject

\* The phases of two projects: created, reordered, given issues, deleted.
SpecPhases == InitPhases /\ [][NextPhases]_vars

\* ---------------------------------------------------------------------
\* User administration (routers/admin.py).  accounts is the table users,
\* superusers the accounts whose is_superuser is true; a flag of null is
\* falsy for get_current_superuser, so such an account is outside
\* superusers.
\* ---------------------------------------------------------------------

\* UserAdminUpdate.is_superuser: Optional[bool] = None.  The body may carry
\* true, false, an explicit null, or leave the field out.
True == "True"

False == "False"

SuperuserFlags == {True, False, None, Unset}

\* crud_user.get_user: the account with that id, or None.
get_user(user_id) == IF user_id \in accounts THEN user_id ELSE None

\* PUT /admin/users/{user_id}.  Only an explicit False on the caller's own
\* account is refused; model_dump(exclude_unset=True) keeps an explicit
\* null, which setattr then writes to the column.  The commit comes before
\* the response is validated, and the response schema refuses a null flag.
update_user_privileges(current_user, user_id, is_superuser) ==
    IF get_current_superuser(current_user) # OK
    THEN [code |-> HTTP_403_FORBIDDEN, superusers |-> superusers]
    ELSE IF get_user(user_id) = None
    THEN [code |-> HTTP_404_NOT_FOUND, superusers |-> superusers]
    ELSE IF current_user = user_id /\ is_superuser = False
    THEN [code |-> HTTP_400_BAD_REQUEST, superusers |-> superusers]
    ELSE IF is_superuser = Unset
    THEN [code |-> OK, superusers |-> superusers]
    ELSE IF is_superuser = True
    THEN [code |-> OK, superusers |-> superusers \cup {user_id}]
    ELSE IF is_superuser = False
    THEN [code |-> OK, superusers |-> superusers \ {user_id}]
    ELSE [code |-> HTTP_500_INTERNAL, superusers |-> superusers \ {user_id}]

\* crud_user.delete_user: the row goes, and its memberships with it
\* (models.User.memberships: cascade="all, delete-orphan").
delete_user(user_id) ==
    [accounts |-> accounts \ {user_id},
     superusers |-> superusers \ {user_id},
     members |-> [p \in DOMAIN members |->
                    [members[p] EXCEPT ![user_id] = None]]]

\* DELETE /admin/users/{user_id}.
delete_user_by_id(current_user, user_id) ==
    LET same == [accounts |-> accounts, superusers |-> superusers,
                 members |-> members]
    IN IF get_current_superuser(current_user) # OK
       THEN [code |-> HTTP_403_FORBIDDEN, db |-> same]
       ELSE IF current_user = user_id
       THEN [code |-> HTTP_400_BAD_REQUEST, db |-> same]
       ELSE IF get_user(user_id) = None
       THEN [code |-> HTTP_404_NOT_FOUND, db |-> same]
       ELSE [code |-> OK, db |-> delete_user(user_id)]

InitAdmin ==
    /\ superusers = {DefaultAdmin}
    /\ projects = {1}
    /\ \E cast \in HandoverCasts :
        members = [p \in ProjectIds |-> IF p = 1 THEN cast ELSE NoMembers]
    /\ issues = <<>>
    /\ last = "setup"
    /\ NoCalculation
    /\ NoRequests

AdminFrame ==
    UNCHANGED <<projects, issues, calcVars, txVars, phase_table, issue_phase>>

\* The caller holds a token of an existing account (get_current_user).
UpdateUserPrivileges ==
    \E current_user \in accounts, user_id \in Users,
       is_superuser \in SuperuserFlags :
        LET out == update_user_privileges(current_user, user_id, is_superuser)
        IN /\ superusers' = out.superusers
           /\ last' = IF out.code \in {OK, HTTP_500_INTERNAL}
                      THEN "updateUserPrivileges" ELSE last
           /\ UNCHANGED <<accounts, members>>
           /\ AdminFrame

DeleteUser ==
    \E current_user \in accounts, user_id \in Users :
        LET out == delete_user_by_id(current_user, user_id)
        IN /\ accounts' = out.db.accounts
           /\ superusers' = out.db.superusers
           /\ members' = out.db.members
           /\ last' = committed("deleteUser", out.code)
           /\ AdminFrame

NextAdmin == UpdateUserPrivileges \/ DeleteUser

SpecAdmin == InitAdmin /\ [][NextAdmin]_vars


\* The whole system.
Next ==
    \/ NextMembers \/ NextIssues \/ NextProgress \/ NextHandover \/ NextRace
    \/ NextPhases \/ NextAdmin

Spec == Init /\ [][Next]_vars

\* ----------------------------------------------------- membership claims

\* C1: every project that has at least one membership has exactly one
\* membership whose role is PROJECT_LEAD, in every state reachable by
\* createProject, addMember, updateMemberRole and removeMember.
C1_ExactlyOneLead ==
    \A p \in ProjectIds :
        get_project_members(p) # {} => Cardinality(project_leads(p)) = 1

\* The hand-over of C2 as a step: a user who becomes PROJECT_LEAD of a project
\* leaves every user who was its lead a MEMBER.
HandOverDemotes ==
    \A p \in ProjectIds, u \in Users :
        (members[p][u] # PROJECT_LEAD /\ members'[p][u] = PROJECT_LEAD) =>
            \A v \in Users \ {u} :
                members[p][v] = PROJECT_LEAD => members'[p][v] = MEMBER

\* No project has two or more memberships with role PROJECT_LEAD.
AtMostOneLead == \A p \in ProjectIds : Cardinality(project_leads(p)) <= 1

\* C2: no project ever has two or more PROJECT_LEAD memberships, and the
\* step that gives PROJECT_LEAD to a user (by adding or by role update)
\* demotes the previous lead to MEMBER in the same step.
C2_AtMostOneLead == []AtMostOneLead /\ [][HandOverDemotes]_vars

\* C2 witness: after a committed role update, a project led by v in which
\* the lead is handed to another user u, by a role update of a member or by
\* adding a new member; the request succeeds and commits u as lead and v as
\* member.
C2_Witness ==
    \E p \in projects, u \in Users, v \in Users :
        /\ last = "updateMemberRole"
        /\ u # v
        /\ members[p][v] = PROJECT_LEAD
        /\ \/ /\ members[p][u] = MEMBER
              /\ LET out == update_project_member_role(DefaultAdmin, p, u,
                                                       PROJECT_LEAD, v)
                 IN out.code = OK /\ out.members[p][u] = PROJECT_LEAD
                                  /\ out.members[p][v] = MEMBER
           \/ /\ members[p][u] = None
              /\ LET out == add_member_to_project(DefaultAdmin, p, u,
                                                  PROJECT_LEAD, v)
                 IN out.code = OK /\ out.members[p][u] = PROJECT_LEAD
                                  /\ out.members[p][v] = MEMBER

\* ----------------------------------------------------------- issue claims

\* The id the next created issue gets, when one is free.
NewIssueId == CHOOSE i \in FreeIssueIds : \A j \in FreeIssueIds : i <= j

\* An update body that mentions no field.
EmptyUpdate == [status |-> Unset, issue_type |-> Unset, assignee_id |-> Unset]

\* C3: no issue has an assignee whose is_superuser flag is set.
C3_AssigneeNeverSuperuser ==
    \A i \in DOMAIN issues : issues[i].assignee_id \notin superusers

\* C4: no issue has both assignee_id and assignee_request_id set: a pending
\* assignment request exists only while the issue is unassigned.
C4_RequestOnlyWhileUnassigned ==
    \A i \in DOMAIN issues :
        ~(issues[i].assignee_id # None /\ issues[i].assignee_request_id # None)

\* C5: createIssue by an actor whose role in the target project is MEMBER
\* fails with Forbidden and persists nothing when the type is STORY or EPIC;
\* with TASK or BUG it succeeds and the stored issue has status PROPOSED and
\* no assignee, whatever status and assignee_id were submitted.
C5_MemberCreatesProposal ==
    FreeIssueIds # {} =>
        \A a \in Users \ superusers, issue_in \in IssueCreateBodies :
            members[issue_in.project_id][a] = MEMBER =>
                LET out == create_new_issue(a, NewIssueId, issue_in) IN
                IF issue_in.issue_type \in {STORY, EPIC}
                THEN out.code = HTTP_403_FORBIDDEN /\ out.issues = issues
                ELSE /\ out.code = OK
                     /\ DOMAIN out.issues = DOMAIN issues \cup {NewIssueId}
                     /\ \A i \in DOMAIN issues : out.issues[i] = issues[i]
                     /\ out.issues[NewIssueId].issue_type = issue_in.issue_type
                     /\ out.issues[NewIssueId].status = PROPOSED
                     /\ out.issues[NewIssueId].assignee_id = None

\* C5 witness: the last committed request created an issue whose reporter is
\* a MEMBER of its project; it is stored PROPOSED and unassigned.
C5_Witness ==
    /\ last = "createIssue"
    /\ \E i \in DOMAIN issues :
        /\ issues[i].reporter_id \notin superusers
        /\ members[issues[i].project_id][issues[i].reporter_id] = MEMBER
        /\ issues[i].issue_type = BUG
        /\ issues[i].status = PROPOSED
        /\ issues[i].assignee_id = None

\* The actors create_new_issue treats as lead or admin of project p: a
\* superuser, or the holder of a PROJECT_LEAD or ADMIN row.
LeadOrAdmin(a, p) == a \in superusers \/ members[p][a] \in {PROJECT_LEAD, ADMIN}

\* C6: createIssue by a PROJECT_LEAD or ADMIN accepts every issue type and
\* never stores PROPOSED: a submitted (or defaulted) PROPOSED is stored as
\* TODO, any other submitted status unchanged.  (A superuser naming itself
\* as assignee is refused before the policy applies.)
C6_LeadCreatesCommittedWork ==
    FreeIssueIds # {} =>
        \A a \in Users, issue_in \in IssueCreateBodies :
            (issue_in.project_id \in projects /\ LeadOrAdmin(a, issue_in.project_id)) =>
                LET out == create_new_issue(a, NewIssueId, issue_in) IN
                IF a \in superusers /\ issue_in.assignee_id = a
                THEN out.code # OK /\ out.issues = issues
                ELSE /\ out.code = OK
                     /\ DOMAIN out.issues = DOMAIN issues \cup {NewIssueId}
                     /\ out.issues[NewIssueId].issue_type = issue_in.issue_type
                     /\ out.issues[NewIssueId].status # PROPOSED
                     /\ out.issues[NewIssueId].status =
                            IF issue_in.status = PROPOSED THEN TODO
                            ELSE issue_in.status

\* C6 witness: the last committed request created an EPIC whose reporter is
\* the project's lead; it is stored TODO.
C6_Witness ==
    /\ last = "createIssue"
    /\ \E i \in DOMAIN issues :
        /\ members[issues[i].project_id][issues[i].reporter_id] = PROJECT_LEAD
        /\ issues[i].issue_type = EPIC
        /\ issues[i].status = TODO

\* C7: createIssue by a non-superuser with no membership in the target
\* project fails with Forbidden and creates no issue; a superuser without a
\* membership row may create the issue.
C7_OutsiderCannotCreate ==
    FreeIssueIds # {} =>
        \A a \in Users, issue_in \in IssueCreateBodies :
            members[issue_in.project_id][a] = None =>
                LET out == create_new_issue(a, NewIssueId, issue_in) IN
                IF a \notin superusers
                THEN out.code = HTTP_403_FORBIDDEN /\ out.issues = issues
                ELSE (issue_in.project_id \in projects /\ issue_in.assignee_id # a) =>
                        /\ out.code = OK
                        /\ NewIssueId \in DOMAIN out.issues
                        /\ out.issues[NewIssueId].reporter_id = a

\* C7 witness: a project with an outsider (a non-superuser without a row)
\* in which the last committed request is the creation of an issue by a
\* superuser who has no row either.
C7_Witness ==
    /\ last = "createIssue"
    /\ \E i \in DOMAIN issues, u \in Users \ superusers :
        /\ members[issues[i].project_id][u] = None
        /\ issues[i].reporter_id \in superusers
        /\ members[issues[i].project_id][issues[i].reporter_id] = None

\* C8: createIssue and updateIssue are refused, persisting no change,
\* whenever the submitted assignee_id refers to any superuser account, for
\* every actor role and whether or not that superuser is the actor.  (Any
\* error code counts as the refusal here.)
C8_SuperuserAssigneeRefused ==
    /\ FreeIssueIds # {} =>
        \A a \in Users, issue_in \in IssueCreateBodies :
            issue_in.assignee_id \in superusers =>
                LET out == create_new_issue(a, NewIssueId, issue_in)
                IN out.code # OK /\ out.issues = issues
    /\ \A i \in DOMAIN issues, a \in Users, issue_in \in IssueUpdateBodies :
            issue_in.assignee_id \in superusers =>
                LET out == update_existing_issue(a, i, issue_in)
                IN out.code # OK /\ out.issues = issues

\* The actors C9 names: effective role ADMIN (a superuser or an ADMIN row),
\* the project's PROJECT_LEAD, or the issue's current assignee.
C9_Permitted(a, i) ==
    \/ LeadOrAdmin(a, issues[i].project_id)
    \/ issues[i].assignee_id = a

\* C9: updateIssue is permitted exactly for those actors: a body that
\* mentions no field is accepted from them, and every body from any other
\* actor fails with Forbidden and leaves the issue unchanged.
C9_UpdatePermittedExactly ==
    \A i \in DOMAIN issues, a \in Users :
        IF C9_Permitted(a, i)
        THEN update_existing_issue(a, i, EmptyUpdate).code = OK
        ELSE \A issue_in \in IssueUpdateBodies :
                LET out == update_existing_issue(a, i, issue_in)
                IN out.code = HTTP_403_FORBIDDEN /\ out.issues = issues

\* C10: after any updateIssue by an actor who is neither ADMIN nor
\* PROJECT_LEAD (the assignee acting alone) the issue's issue_type and
\* assignee_id are as before, whatever the body; a body that attempts to
\* change either field, clearing the assignee included, fails with Forbidden.
C10_AssigneeCannotRetypeOrReassign ==
    \A i \in DOMAIN issues, a \in Users, issue_in \in IssueUpdateBodies :
        ~LeadOrAdmin(a, issues[i].project_id) =>
            LET out == update_existing_issue(a, i, issue_in) IN
            /\ out.issues[i].issue_type = issues[i].issue_type
            /\ out.issues[i].assignee_id = issues[i].assignee_id
            /\ (\/ issue_in.issue_type \notin {Unset, issues[i].issue_type}
                \/ issue_in.assignee_id \notin {Unset, issues[i].assignee_id})
                    => out.code = HTTP_403_FORBIDDEN

\* ------------------------------------------------- issue workflow claims

\* The error kind Conflict (a workflow-state precondition does not hold) as
\* the handlers answer it: HTTPException(status_code=400).
Conflict == HTTP_400_BAD_REQUEST

\* C11: no updateIssue by an actor who is neither lead nor admin changes an
\* issue's status from a value other than PROPOSED to PROPOSED.
C11_OnlyLeadSetsProposed ==
    \A i \in DOMAIN issues, a \in Users, issue_in \in IssueUpdateBodies :
        (~LeadOrAdmin(a, issues[i].project_id) /\ issues[i].status # PROPOSED) =>
            update_existing_issue(a, i, issue_in).issues[i].status # PROPOSED

\* approveProposal as C12 states it, at one state: on a PROPOSED issue a
\* lead or admin gets status TODO and no other change; on any other status
\* Conflict and no change.
ApproveProposalEffect ==
    \A i \in DOMAIN issues, a \in Users :
        LeadOrAdmin(a, issues[i].project_id) =>
            LET out == approve_proposal(a, i) IN
            IF issues[i].status = PROPOSED
            THEN out.code = OK /\ out.issues = [issues EXCEPT ![i].status = TODO]
            ELSE out.code = Conflict /\ out.issues = issues

\* A second approveProposal right after a committed one: every lead or admin
\* gets Conflict on the issue just approved, and nothing changes.
SecondApprovalConflicts ==
    (last' = "approveProposal" /\ issues' # issues) =>
        \A i \in DOMAIN issues, a \in Users :
            (issues'[i] # issues[i] /\ LeadOrAdmin(a, issues[i].project_id)) =>
                /\ (approve_proposal(a, i).code)' = Conflict
                /\ (approve_proposal(a, i).issues)' = issues'

\* C12: approveProposal by an ADMIN or PROJECT_LEAD sets a PROPOSED issue to
\* TODO and changes no other field, fails with Conflict changing nothing on
\* any other status, and so fails with Conflict when repeated immediately
\* after a successful one.
C12_ApproveProposalOnce == []ApproveProposalEffect /\ [][SecondApprovalConflicts]_vars

\* C12 witness: the last committed request approved a member's proposal,
\* which is now TODO.
C12_Witness ==
    /\ last = "approveProposal"
    /\ \E i \in DOMAIN issues :
        /\ issues[i].status = TODO
        /\ issues[i].reporter_id \notin superusers
        /\ members[issues[i].project_id][issues[i].reporter_id] = MEMBER

\* requestAssignment as C14 states it, at one state, for every requester:
\* Conflict and no change when the issue has an assignee or a pending
\* request; otherwise the requester becomes assignee_request_id and no other
\* field changes.
RequestAssignmentEffect ==
    \A i \in DOMAIN issues, a \in Users :
        LET out == request_assignment(a, i) IN
        IF issues[i].assignee_id # None \/ issues[i].assignee_request_id # None
        THEN out.code = Conflict /\ out.issues = issues
        ELSE out.code = OK
             /\ out.issues = [issues EXCEPT ![i].assignee_request_id = a]

\* No step replaces a pending request by another requester's.
PendingRequestKept ==
    \A i \in DOMAIN issues \cap DOMAIN issues' :
        (issues[i].assignee_request_id # None
            /\ issues'[i].assignee_request_id # None)
        => issues'[i].assignee_request_id = issues[i].assignee_request_id

\* C14: requestAssignment fails with Conflict, changing nothing, on an issue
\* that has an assignee or a pending request; otherwise it sets
\* assignee_request_id to the requester and nothing else, so a pending
\* request is never overwritten by a later requester.
C14_OneRequestAtATime == []RequestAssignmentEffect /\ [][PendingRequestKept]_vars

\* C14 witness: the last committed request is a requestAssignment; the issue
\* is unassigned, has its pending request, and another user asking for it is
\* answered Conflict.
C14_Witness ==
    /\ last = "requestAssignment"
    /\ \E i \in DOMAIN issues, b \in Users :
        /\ issues[i].assignee_id = None
        /\ issues[i].assignee_request_id \notin {None, b}
        /\ request_assignment(b, i).code = Conflict

\* approveAssignment as C15 states it, at one state: with a pending request a
\* lead or admin makes the requester the assignee and clears the request;
\* with none, Conflict and no change.
ApproveAssignmentEffect ==
    \A i \in DOMAIN issues, a \in Users :
        LeadOrAdmin(a, issues[i].project_id) =>
            LET out == approve_assignment(a, i) IN
            IF issues[i].assignee_request_id # None
            THEN out.code = OK
                 /\ out.issues =
                      [issues EXCEPT ![i].assignee_id = issues[i].assignee_request_id,
                                     ![i].assignee_request_id = None]
            ELSE out.code = Conflict /\ out.issues = issues

\* A pending request appears on an issue only in a committed
\* requestAssignment step.
RequestOnlyByRequesting ==
    \A i \in DOMAIN issues' :
        (issues'[i].assignee_request_id # None
            /\ (i \in DOMAIN issues => issues[i].assignee_request_id = None))
        => last' = "requestAssignment"

\* A committed approveAssignment or rejectAssignment consumes the pending
\* request of the issue it changes.
DecisionConsumesRequest ==
    (last' \in {"approveAssignment", "rejectAssignment"} /\ issues' # issues) =>
        \A i \in DOMAIN issues :
            issues'[i] # issues[i] =>
                /\ issues[i].assignee_request_id # None
                /\ issues'[i].assignee_request_id = None

\* C15: approveAssignment by an ADMIN or PROJECT_LEAD makes the requester the
\* assignee and clears the request in one step, and fails with Conflict
\* changing nothing when no request is pending; so every successful
\* approveAssignment follows a successful requestAssignment on the issue with
\* no approve or reject in between (the request it consumes was set by a
\* requestAssignment and every approve or reject clears it).
C15_ApprovalConsumesRequest ==
    /\ []ApproveAssignmentEffect
    /\ [][RequestOnlyByRequesting /\ DecisionConsumesRequest]_vars

\* C15 witness: the last committed request approved a request; the issue has
\* a non-superuser assignee and no pending request.
C15_Witness ==
    /\ last = "approveAssignment"
    /\ \E i \in DOMAIN issues :
        /\ issues[i].assignee_id \in Users \ superusers
        /\ issues[i].assignee_request_id = None
        /\ issues[i].reporter_id # issues[i].assignee_id

\* C16: rejectAssignment by an ADMIN or PROJECT_LEAD on an issue with a
\* pending request clears assignee_request_id and leaves assignee_id, status
\* and every other field as they were (an unassigned issue stays
\* unassigned); with no pending request it fails with Conflict and changes
\* nothing.
C16_RejectClearsRequestOnly ==
    \A i \in DOMAIN issues, a \in Users :
        LeadOrAdmin(a, issues[i].project_id) =>
            LET out == reject_assignment(a, i) IN
            IF issues[i].assignee_request_id # None
            THEN out.code = OK
                 /\ out.issues = [issues EXCEPT ![i].assignee_request_id = None]
                 /\ out.issues[i].assignee_id = issues[i].assignee_id
                 /\ out.issues[i].status = issues[i].status
            ELSE out.code = Conflict /\ out.issues = issues

\* C16 witness: the last committed request rejected a request; the issue is
\* unassigned and has no pending request.
C16_Witness ==
    /\ last = "rejectAssignment"
    /\ \E i \in DOMAIN issues :
        /\ issues[i].assignee_id = None
        /\ issues[i].assignee_request_id = None

\* C13: rejectProposal by an ADMIN or PROJECT_LEAD on a PROPOSED issue
\* deletes that issue and no other; on any other status it fails with
\* Conflict and the issue still exists unchanged.
C13_RejectDeletesProposalOnly ==
    \A i \in DOMAIN issues, a \in Users :
        LeadOrAdmin(a, issues[i].project_id) =>
            LET out == reject_proposal(a, i) IN
            IF issues[i].status = PROPOSED
            THEN /\ out.code = OK
                 /\ DOMAIN out.issues = DOMAIN issues \ {i}
                 /\ \A j \in DOMAIN out.issues : out.issues[j] = issues[j]
            ELSE out.code = Conflict /\ out.issues = issues

\* C13 witness: the last committed request rejected a proposal and two other
\* issues, one of them a proposal, are still on the board.
C13_Witness ==
    /\ last = "rejectProposal"
    /\ Cardinality(DOMAIN issues) = 2
    /\ \E i \in DOMAIN issues : issues[i].status = PROPOSED
    /\ \E i \in DOMAIN issues : issues[i].status # PROPOSED

\* The issues of project p.
IssuesOf(p) == {i \in DOMAIN issues : issues[i].project_id = p}

\* C17: getIssuesForProject returns every issue of the project to an ADMIN
\* or PROJECT_LEAD, and to a MEMBER exactly the issues whose status is not
\* PROPOSED together with the PROPOSED issues that member reported.
C17_MemberListingHidesOthersProposals ==
    \A p \in projects, a \in Users :
        LET out == get_issues_for_project(a, p) IN
        /\ LeadOrAdmin(a, p) => out.code = OK /\ out.issues = IssuesOf(p)
        /\ (a \notin superusers /\ members[p][a] = MEMBER) =>
                /\ out.code = OK
                /\ out.issues =
                      {i \in IssuesOf(p) : issues[i].status # PROPOSED}
                      \cup {i \in IssuesOf(p) : issues[i].status = PROPOSED
                                                /\ issues[i].reporter_id = a}

\* C17 witness: a board of one issue that is not PROPOSED, one proposal of
\* member a and one proposal of another member; a is listed exactly two
\* issues, the lead all three.
C17_Witness ==
    \E p \in projects, a \in Users \ superusers, b \in Users :
        /\ members[p][a] = MEMBER
        /\ LeadOrAdmin(b, p)
        /\ Cardinality({i \in IssuesOf(p) : issues[i].status # PROPOSED}) = 1
        /\ Cardinality({i \in IssuesOf(p) : issues[i].status = PROPOSED
                                            /\ issues[i].reporter_id = a}) = 1
        /\ Cardinality({i \in IssuesOf(p) : issues[i].status = PROPOSED
                                            /\ issues[i].reporter_id # a}) = 1
        /\ Cardinality(get_issues_for_project(a, p).issues) = 2
        /\ Cardinality(get_issues_for_project(b, p).issues) = 3

\* ------------------------------------------- membership claims, continued

\* The actors the role guards let through as ADMIN of project p: a superuser
\* or the holder of an ADMIN row.
IsAdmin(a, p) == a \in superusers \/ members[p][a] = ADMIN

\* assign(P, U2, PROJECT_LEAD) as an ADMIN requests it: a role update when U2
\* has a row, an addMember when not.
assign_lead(a, p, u2, current_lead) ==
    IF members[p][u2] = None
    THEN add_member_to_project(a, p, u2, PROJECT_LEAD, current_lead)
    ELSE update_project_member_role(a, p, u2, PROJECT_LEAD, current_lead)

\* C18: with U the PROJECT_LEAD of P, assigning PROJECT_LEAD in P to a
\* different user U2 leaves U with role MEMBER and U2 with role PROJECT_LEAD,
\* both members of P, and no other membership changed.
C18_LeadSuccession ==
    \A p \in projects, u \in Users, u2 \in Users, a \in Users :
        (u # u2 /\ members[p][u] = PROJECT_LEAD /\ IsAdmin(a, p)) =>
            \A current_lead \in current_lead_choices(p) :
                LET out == assign_lead(a, p, u2, current_lead) IN
                /\ out.code = OK
                /\ out.members[p][u] = MEMBER
                /\ out.members[p][u2] = PROJECT_LEAD
                /\ \A w \in Users \ {u, u2} : out.members[p][w] = members[p][w]

\* C18 witness: U2 was added last and is a MEMBER beside the lead U; the
\* role update that makes U2 the lead succeeds and leaves U a MEMBER.
C18_Witness ==
    /\ last = "addMember"
    /\ \E p \in projects, u \in Users, u2 \in Users :
        /\ members[p][u] = PROJECT_LEAD
        /\ members[p][u2] = MEMBER
        /\ LET out == assign_lead(DefaultAdmin, p, u2, u) IN
           /\ out.code = OK
           /\ out.members[p] = [members[p] EXCEPT ![u] = MEMBER,
                                                  ![u2] = PROJECT_LEAD]

\* C19: on the only PROJECT_LEAD of a project that has other members, a
\* removeMember, and an updateMemberRole to any other role, requested by an
\* ADMIN, fails with Conflict and leaves all memberships unchanged.
C19_SoleLeadKept ==
    \A p \in projects, u \in Users, a \in Users :
        (/\ project_leads(p) = {u}
         /\ get_project_members(p) # {u}
         /\ IsAdmin(a, p)) =>
            /\ LET out == remove_member_from_project(a, p, u)
               IN out.code = Conflict /\ out.members = members
            /\ \A role \in ProjectRole \ {PROJECT_LEAD} :
                LET out == update_project_member_role(a, p, u, role, u)
                IN out.code = Conflict /\ out.members = members

\* C20: addMember for a user who already has a row in the project leaves
\* every membership unchanged whoever asks, and answers Conflict to every
\* actor allowed to add with the requested role (an ADMIN for any role, the
\* PROJECT_LEAD for a role other than PROJECT_LEAD), also when the requested
\* role is PROJECT_LEAD: the current lead is not demoted.
C20_ExistingMemberConflict ==
    \A p \in projects, u \in Users, a \in Users, role \in ProjectRole :
        members[p][u] # None =>
            \A current_lead \in current_lead_choices(p) :
                LET out == add_member_to_project(a, p, u, role, current_lead) IN
                /\ out.code # OK
                /\ out.members = members
                /\ (IsAdmin(a, p) \/ (members[p][a] = PROJECT_LEAD /\ role # PROJECT_LEAD))
                        => out.code = Conflict

\* C20 witness: after an addMember, a project with a lead v and a member u;
\* an ADMIN adding u again as PROJECT_LEAD is answered Conflict and v is
\* still the lead.
C20_Witness ==
    /\ last = "addMember"
    /\ \E p \in projects, u \in Users, v \in Users :
        /\ members[p][u] = MEMBER
        /\ members[p][v] = PROJECT_LEAD
        /\ LET out == add_member_to_project(DefaultAdmin, p, u, PROJECT_LEAD, v) IN
           out.code = Conflict /\ out.members[p][v] = PROJECT_LEAD

\* Forbidden as the handlers answer it.
Forbidden == HTTP_403_FORBIDDEN

\* C21: addMember by an actor whose role is PROJECT_LEAD, asking for the role
\* PROJECT_LEAD or ADMIN, fails with Forbidden and adds no membership.
C21_LeadAddsMembersOnly ==
    \A p \in projects, a \in Users \ superusers, u \in Users :
        members[p][a] = PROJECT_LEAD =>
            \A role \in {PROJECT_LEAD, ADMIN}, current_lead \in current_lead_choices(p) :
                LET out == add_member_to_project(a, p, u, role, current_lead)
                IN out.code = Forbidden /\ out.members = members

\* C22: updateMemberRole fails with Forbidden, all roles unchanged, for every
\* actor who is not an ADMIN of the project, and succeeds for an ADMIN unless
\* the target has no row or is the sole lead being made a MEMBER; addMember
\* and removeMember by such an actor change the role of no membership that
\* stays.
C22_OnlyAdminChangesRoles ==
    \A p \in projects, a \in Users, u \in Users, role \in ProjectRole :
        \A current_lead \in current_lead_choices(p) :
            LET upd == update_project_member_role(a, p, u, role, current_lead)
                add == add_member_to_project(a, p, u, role, current_lead)
                rem == remove_member_from_project(a, p, u)
                kept(m) == \A w \in Users :
                            (members[p][w] # None /\ m[p][w] # None)
                                => m[p][w] = members[p][w]
            IN IF IsAdmin(a, p)
               THEN upd.code = OK <=>
                        /\ members[p][u] # None
                        /\ ~(project_leads(p) = {u} /\ role = MEMBER)
               ELSE /\ upd.code = Forbidden /\ upd.members = members
                    /\ kept(add.members)
                    /\ kept(rem.members)

\* C22 witness: after a committed role update, a project whose lead is not a
\* superuser and has a MEMBER beside it; the lead's request to make that
\* member an ADMIN is answered Forbidden.
C22_Witness ==
    /\ last = "updateMemberRole"
    /\ \E p \in projects, a \in Users \ superusers, u \in Users :
        /\ members[p][a] = PROJECT_LEAD
        /\ members[p][u] = MEMBER
        /\ update_project_member_role(a, p, u, ADMIN, a).code = Forbidden

\* C23: for every user, project and allowed-role set the project-keyed guard
\* admits the user iff the user is a superuser (as ADMIN, row or no row) or
\* has a row whose role is allowed; a non-superuser without a row is refused
\* with Forbidden "not a member", a member whose role is not allowed with
\* Forbidden naming the role; and the issue-keyed guard decides as the
\* project-keyed guard does for the issue's project.
C23_GuardDecision ==
    \A a \in Users, allowed \in SUBSET ProjectRole :
        /\ \A p \in ProjectIds :
            LET g == require_role(allowed, p, a) IN
            /\ g.code = OK <=> (a \in superusers \/ members[p][a] \in allowed)
            /\ (g.code = OK /\ a \in superusers) => g.role = ADMIN
            /\ (g.code = OK /\ a \notin superusers) => g.role = members[p][a]
            /\ g.code # OK => g.code = Forbidden
            /\ (a \notin superusers /\ members[p][a] = None) =>
                    guard_detail(allowed, p, a) = <<"Not a member of this project">>
            /\ (a \notin superusers /\ members[p][a] \notin allowed \cup {None}) =>
                    guard_detail(allowed, p, a)[2] = members[p][a]
        /\ \A i \in DOMAIN issues :
            require_issue_role(allowed, i, a) = require_role(allowed, issues[i].project_id, a)

\* C23 witness: an issue in a project where the superuser has no row, a
\* non-superuser has none either and a third user is the lead: a guard
\* allowing MEMBER only admits the first as ADMIN and refuses the other two.
C23_Witness ==
    \E i \in DOMAIN issues, su \in superusers, o \in Users \ superusers, l \in Users :
        LET p == issues[i].project_id IN
        /\ members[p][su] = None /\ members[p][o] = None
        /\ members[p][l] = PROJECT_LEAD
        /\ require_issue_role({MEMBER}, i, su) = [code |-> OK, role |-> ADMIN]
        /\ require_issue_role({MEMBER}, i, o).code = Forbidden
        /\ require_issue_role({MEMBER}, i, l).code = Forbidden
        /\ guard_detail({MEMBER}, p, l) # guard_detail({MEMBER}, p, o)

\* ------------------------------------------------------- error handling

\* The id (a fresh uuid4) the next project row would get: one no row has.
UnusedProjectId == MaxProjects + 1

\* C26: every request that ends in an error leaves the projects, the
\* memberships and the issues as they were: each handler, on every state
\* and every request, either answers OK or returns the tables unchanged;
\* createProject with a lead email that matches no user answers NotFound
\* and persists neither the project nor a membership.
C26_ErrorsChangeNothing ==
    /\ \A a \in Users, i \in IssueIds :
        /\ \A issue_in \in IssueCreateBodies :
             LET out == create_new_issue(a, i, issue_in)
             IN out.code # OK => out.issues = issues
        /\ \A issue_in \in IssueUpdateBodies :
             LET out == update_existing_issue(a, i, issue_in)
             IN out.code # OK => out.issues = issues
        /\ \A out \in {delete_existing_issue(a, i), approve_proposal(a, i),
                       reject_proposal(a, i), request_assignment(a, i),
                       approve_assignment(a, i), reject_assignment(a, i)} :
             out.code # OK => out.issues = issues
    /\ \A a \in Users, p \in ProjectIds, u \in Users, role \in ProjectRole :
        \A current_lead \in current_lead_choices(p) :
            /\ \A email \in Emails :
                 LET out == add_member_to_project(a, p, email, role, current_lead)
                 IN out.code # OK => out.members = members
            /\ LET out == update_project_member_role(a, p, u, role, current_lead)
               IN out.code # OK => out.members = members
            /\ LET out == remove_member_from_project(a, p, u)
               IN out.code # OK => out.members = members
    /\ \A a \in Users, lead_email \in Emails \cup {None},
          member_emails \in SUBSET Emails :
            \* the requests createProject refuses
            (a \notin superusers \/ lead_email = UnknownEmail) =>
                LET out == create_project(a, UnusedProjectId, lead_email,
                                          member_emails) IN
                /\ out.code = IF a \in superusers THEN HTTP_404_NOT_FOUND
                                                  ELSE Forbidden
                /\ out.projects = projects
                /\ out.members = members

\* C26 witness: a project with an issue that has been worked on, where an
\* update by an outsider is Forbidden, an approval is a Conflict, a removal
\* of an absent member is NotFound and a createProject with an unknown lead
\* is NotFound.
C26_Witness ==
    /\ last = "updateIssue"
    /\ \E i \in DOMAIN issues, o \in Users \ superusers, l \in Users \ superusers :
        LET p == issues[i].project_id IN
        /\ members[p][o] = None
        /\ members[p][l] = PROJECT_LEAD
        /\ update_existing_issue(o, i, EmptyUpdate).code = Forbidden
        /\ approve_assignment(l, i).code = Conflict
        /\ remove_member_from_project(l, p, o).code = HTTP_404_NOT_FOUND
        /\ create_project(DefaultAdmin, UnusedProjectId, UnknownEmail, {o}).code
                = HTTP_404_NOT_FOUND

\* ----------------------------------------------------- what a member sees

\* The issue table without the PROPOSED issues reported by users other
\* than m.
WithoutProposalsOfOthers(m) ==
    [i \in {j \in DOMAIN issues :
                issues[j].status # PROPOSED \/ issues[j].reporter_id = m}
        |-> issues[i]]

\* C29: what a MEMBER m reads does not depend on the PROPOSED issues others
\* reported: getIssuesForProject lists none of them, and getProjectsForUser
\* answers m as it would if those issues did not exist.
C29_ProposalsOfOthersHidden ==
    \A p \in projects, m \in Users \ superusers :
        members[p][m] = MEMBER =>
            /\ get_issues_for_project(m, p).issues
                    \subseteq DOMAIN WithoutProposalsOfOthers(m)
            /\ get_user_projects(issues, m)
                    = get_user_projects(WithoutProposalsOfOthers(m), m)

\* C30: requestAssignment by a non-superuser who has no membership in the
\* issue's project fails with Forbidden and leaves assignee_request_id as it
\* was.
C30_OutsiderCannotRequest ==
    \A i \in DOMAIN issues, a \in Users \ superusers :
        members[issues[i].project_id][a] = None =>
            LET out == request_assignment(a, i)
            IN out.code = Forbidden /\ out.issues = issues

\* ---------------------------------------------------------------- progress

\* The issues of the calculation that belong to phase k of the project.
InPhase(k) ==
    {n \in 1..Len(all_project_issues) :
        all_project_issues[n].phase_id = project_phases[k].id}

\* The issues of the calculation with status DONE among those of set S.
DoneIn(S) == {n \in S : all_project_issues[n].status = DONE}

\* C24: the progress calculated for a phase is 100 when the phase has no
\* issue and is COMPLETED, 0 when it has no issue and is not COMPLETED, and
\* otherwise 100 times the DONE issues of the phase over the issues of the
\* phase; it lies between 0 and 100.
C24_PhaseProgress ==
    progress.of = "phase" =>
        LET phase == project_phases[progress.phase]
            in_phase == InPhase(progress.phase)
            v == progress.value
        IN /\ v.den > 0
           /\ 0 <= v.num
           /\ v.num <= 100 * v.den
           /\ (in_phase = {} /\ phase.status = COMPLETED) => v.num = 100 * v.den
           /\ (in_phase = {} /\ phase.status # COMPLETED) => v.num = 0
           /\ in_phase # {} =>
                 v.num * Cardinality(in_phase)
                     = 100 * Cardinality(DoneIn(in_phase)) * v.den

\* C24 witness: the progress of a phase with three issues, one of them DONE,
\* in a project that has an issue outside the phase: a third of 100.
C24_Witness ==
    /\ progress.of = "phase"
    /\ Cardinality(InPhase(progress.phase)) = 3
    /\ Cardinality(DoneIn(InPhase(progress.phase))) = 1
    /\ Len(all_project_issues) = 4
    /\ all_project_issues[4].status = DONE
    /\ progress.value = Ratio(100, 3)

\* Phase k counts as completed: its progress, 100 * DONE / issues of the
\* phase, rounds to at least 100, which is to say it is at least 99.5.
RoundsToHundred(k) ==
    IF InPhase(k) = {}
    THEN project_phases[k].status = COMPLETED
    ELSE 200 * Cardinality(DoneIn(InPhase(k))) >= 199 * Cardinality(InPhase(k))

\* C25: the progress calculated for a project with phases is 100 times the
\* phases whose progress rounds to at least 100 over the phases; without
\* phases it is 100 times the DONE issues over the issues that are not
\* PROPOSED, and 0 when there is none.  Two phases, one with 3 of 3 issues
\* DONE and one with progress 0, give 50; no phase and 4 issues not PROPOSED
\* with 1 DONE give 25.
C25_ProjectProgress ==
    progress.of = "project" =>
        LET v == progress.value
            all == 1..Len(all_project_issues)
            active == {n \in all : all_project_issues[n].status # PROPOSED}
            phases == 1..Len(project_phases)
        IN /\ v.den > 0
           /\ phases # {} =>
                 v.num * Cardinality(phases)
                     = 100 * Cardinality({k \in phases : RoundsToHundred(k)}) * v.den
           /\ (phases = {} /\ active # {}) =>
                 v.num * Cardinality(active) = 100 * Cardinality(DoneIn(all)) * v.den
           /\ (phases = {} /\ active = {}) => v.num = 0
           /\ ( /\ Cardinality(phases) = 2
                /\ \E k, j \in phases :
                     /\ Cardinality(InPhase(k)) = 3
                     /\ DoneIn(InPhase(k)) = InPhase(k)
                     /\ DoneIn(InPhase(j)) = {}
                     /\ InPhase(j) = {} => project_phases[j].status # COMPLETED )
                => v.num = 50 * v.den
           /\ ( /\ phases = {}
                /\ Cardinality(active) = 4
                /\ Cardinality(DoneIn(all)) = 1 )
                => v.num = 25 * v.den

\* C25 witness: the project progress of two phases, the first with three
\* issues all DONE and the second with one issue not DONE, is 50.
C25_Witness ==
    /\ progress.of = "project"
    /\ Len(project_phases) = 2
    /\ Cardinality(InPhase(1)) = 3
    /\ DoneIn(InPhase(1)) = InPhase(1)
    /\ Cardinality(InPhase(2)) = 1
    /\ DoneIn(InPhase(2)) = {}
    /\ progress.value = Ratio(100, 2)

\* ---------------------------------------------------- concurrent hand-over

\* C27: a read that runs while a request hands PROJECT_LEAD from U to U2
\* sees exactly one of the two as lead: U before the commit of the request
\* and U2 after it, never neither and never both.
C27_HandoverInOneCommit ==
    \A h \in observed.during :
        (observed.rows[h[1]] = PROJECT_LEAD) # (observed.rows[h[2]] = PROJECT_LEAD)

\* C27 witness: a read ran while a hand-over from U to U2 was in flight, and
\* the hand-over has since committed: U is a MEMBER and U2 the lead.
C27_Witness ==
    /\ last \in HandoverOps
    /\ \A r \in Requests : sessions[r].pc = "closed"
    /\ \E h \in observed.during :
        /\ observed.rows[h[1]] = PROJECT_LEAD
        /\ members[1][h[1]] = MEMBER
        /\ members[1][h[2]] = PROJECT_LEAD

\* C28: once the requests that assigned PROJECT_LEAD concurrently have
\* committed, the project has at most one PROJECT_LEAD.
C28_ConcurrentLeadAssignments ==
    (\A r \in Requests : sessions[r].pc = "closed") =>
        \A p \in projects : Cardinality(project_leads(p)) <= 1

\* ------------------------------------------------- guards of the issue core

\* C31: an updateIssue sent by a user who is not a superuser and has no
\* membership in the project of the issue is Forbidden and changes nothing,
\* whether or not the user is the assignee of the issue.
C31_OutsiderCannotUpdate ==
    \A a \in Users \ superusers, i \in DOMAIN issues, issue_in \in IssueUpdateBodies :
        get_project_member(issues[i].project_id, a) = None =>
            LET out == update_existing_issue(a, i, issue_in) IN
            /\ out.code = Forbidden
            /\ out.issues = issues

\* The decisions reserved to admins and leads, applied to issue i by a.
Decisions(a, i) ==
    {approve_proposal(a, i), reject_proposal(a, i), approve_assignment(a, i),
     reject_assignment(a, i), delete_existing_issue(a, i)}

\* C32: approveProposal, rejectProposal, approveAssignment, rejectAssignment
\* and deleteIssue sent by a user who is not a superuser and whose row in
\* the project of the issue is MEMBER or absent are Forbidden and change
\* nothing, whatever the status and the pending request of the issue.
C32_GuardBeforePrecondition ==
    \A a \in Users \ superusers, i \in DOMAIN issues :
        get_project_member(issues[i].project_id, a) \in {MEMBER, None} =>
            \A out \in Decisions(a, i) :
                /\ out.code = Forbidden
                /\ out.issues = issues

\* C32 witness: an approved issue without a pending request, on which the
\* decisions of the lead are a Conflict and those of a MEMBER are Forbidden.
C32_Witness ==
    /\ last = "approveProposal"
    /\ \E i \in DOMAIN issues, m \in Users \ superusers, l \in Users \ superusers :
        LET p == issues[i].project_id IN
        /\ members[p][m] = MEMBER
        /\ members[p][l] = PROJECT_LEAD
        /\ issues[i].status # PROPOSED
        /\ issues[i].assignee_request_id = None
        /\ approve_proposal(l, i).code = Conflict
        /\ reject_assignment(l, i).code = Conflict
        /\ approve_proposal(m, i).code = Forbidden
        /\ reject_assignment(m, i).code = Forbidden

\* An issue id that was never given to a row.
UnusedIssueId == MaxIssues + 1

\* The ids of no row: deleted or never used.
MissingIssueIds == (IssueIds \cup {UnusedIssueId}) \ DOMAIN issues

\* C33: every issue-keyed operation called with the id of no issue answers
\* NotFound to every actor, superuser, lead, member or outsider, and
\* changes nothing.
C33_MissingIssueNotFound ==
    \A a \in Users, i \in MissingIssueIds :
        /\ \A out \in Decisions(a, i) \cup {request_assignment(a, i)} :
              out.code = HTTP_404_NOT_FOUND /\ out.issues = issues
        /\ \A issue_in \in IssueUpdateBodies :
              LET out == update_existing_issue(a, i, issue_in) IN
              out.code = HTTP_404_NOT_FOUND /\ out.issues = issues

\* C33 witness: the issue of a project has been deleted, and the approval
\* of its id by a MEMBER, who would be Forbidden on an issue, is NotFound.
C33_Witness ==
    /\ last = "deleteIssue"
    /\ 1 \in MissingIssueIds
    /\ \E m \in Users \ superusers :
        /\ members[1][m] = MEMBER
        /\ approve_proposal(m, 1).code = HTTP_404_NOT_FOUND
        /\ update_existing_issue(m, 1, EmptyUpdate).code = HTTP_404_NOT_FOUND

\* C34: for the id of no project, the role guard answers NotFound to every
\* actor and every set of required roles, and so does the read of the
\* project behind it.
C34_MissingProjectNotFound ==
    \A a \in Users, p \in ProjectIds \ projects :
        /\ \A required_roles \in SUBSET ProjectRole :
              require_role(required_roles, p, a).code = HTTP_404_NOT_FOUND
        /\ get_single_project(a, p) = HTTP_404_NOT_FOUND

\* ------------------------------------------------------------ the reporter

\* C35: the reporter of the issue a createIssue stores is the actor of the
\* call, and updateIssue with any body, approveProposal, requestAssignment,
\* approveAssignment and rejectAssignment leave the reporter of the issue
\* as it is.
C35_ReporterImmutable ==
    /\ \A a \in Users, issue_in \in IssueCreateBodies :
          LET out == create_new_issue(a, UnusedIssueId, issue_in) IN
          out.code = OK => out.issues[UnusedIssueId].reporter_id = a
    /\ \A a \in Users, i \in DOMAIN issues :
          /\ \A issue_in \in IssueUpdateBodies :
                LET out == update_existing_issue(a, i, issue_in) IN
                out.code = OK => out.issues[i].reporter_id = issues[i].reporter_id
          /\ \A out \in {approve_proposal(a, i), request_assignment(a, i),
                          approve_assignment(a, i), reject_assignment(a, i)} :
                out.code = OK => out.issues[i].reporter_id = issues[i].reporter_id

\* C35 witness: an issue proposed by a MEMBER has been approved, requested
\* and assigned to someone else, and the MEMBER is still its reporter.
C35_Witness ==
    /\ last = "approveAssignment"
    /\ \E i \in DOMAIN issues :
        /\ members[issues[i].project_id][issues[i].reporter_id] = MEMBER
        /\ issues[i].assignee_id \notin {None, issues[i].reporter_id}
        /\ issues[i].status # PROPOSED

\* ------------------------------------------------------------------ phases

\* C36: no two phases of a project have the same order.
C36_UniqueOrder ==
    \A k, j \in DOMAIN phase_table :
        (k # j /\ phase_table[k].project_id = phase_table[j].project_id)
            => phase_table[k].order # phase_table[j].order

\* C37: a deletePhase removes the row of one phase and nothing else: the
\* other phases stay, every issue row stays as it is, the issues that
\* referenced the phase are in no phase afterwards and the other issues
\* keep their phase.
C37_DeletePhaseNullifies ==
    [][ (last' = "deletePhase" /\ phase_table' # phase_table) =>
            \E k \in DOMAIN phase_table :
                /\ phase_table' = [j \in DOMAIN phase_table \ {k} |-> phase_table[j]]
                /\ issues' = issues
                /\ \A i \in DOMAIN issues :
                      IF i \in DOMAIN issue_phase /\ issue_phase[i] # k
                      THEN i \in DOMAIN issue_phase' /\ issue_phase'[i] = issue_phase[i]
                      ELSE i \notin DOMAIN issue_phase'
                /\ DOMAIN issue_phase' \subseteq DOMAIN issues ]_vars

\* C37 witness: a phase has been deleted; one phase is left with an issue
\* in it, and another issue of the same project is in no phase.
C37_Witness ==
    /\ last = "deletePhase"
    /\ Cardinality(DOMAIN phase_table) = 1
    /\ \E i, j \in DOMAIN issues :
        /\ i \in DOMAIN issue_phase
        /\ j \notin DOMAIN issue_phase
        /\ issues[i].project_id = issues[j].project_id

\* The rows of project q: its membership rows, its issues with their
\* rows, and its phases with their rows.
RowsOf(q, db) ==
    [members |-> db.members[q],
     issues |-> {<<i, db.issues[i]>> : i \in {j \in DOMAIN db.issues :
                                                db.issues[j].project_id = q}},
     phases |-> {<<k, db.phase_table[k]>> : k \in {j \in DOMAIN db.phase_table :
                                                db.phase_table[j].project_id = q}}]

\* C38: a deleteProject removes the project with its memberships, its
\* issues and its phases, so that nothing refers to it afterwards, and
\* every membership, issue and phase of the other projects stays.
C38_DeleteProjectCascades ==
    [][ (last' = "deleteProject" /\ projects' # projects) =>
            LET before == [members |-> members, issues |-> issues,
                           phase_table |-> phase_table]
                after == [members |-> members', issues |-> issues',
                          phase_table |-> phase_table']
            IN \E p \in projects :
                /\ projects' = projects \ {p}
                /\ RowsOf(p, after) = [members |-> NoMembers, issues |-> {},
                                       phases |-> {}]
                /\ \A q \in PhaseProjects \ {p} :
                      RowsOf(q, after) = RowsOf(q, before)
                /\ DOMAIN issue_phase' \subseteq DOMAIN issues'
                /\ \A i \in DOMAIN issue_phase' :
                      issue_phase'[i] \in DOMAIN phase_table' ]_vars

\* C38 witness: project 1, which had members, issues and a phase, has been
\* deleted, and project 2 still has its lead, its issue and a phase with
\* the issue in it.
C38_Witness ==
    /\ last = "deleteProject"
    /\ projects = {2}
    /\ members[1] = NoMembers
    /\ members[2]["u3"] = PROJECT_LEAD
    /\ DOMAIN issues = {3}
    /\ \E k \in DOMAIN phase_table :
        /\ phase_table[k].project_id = 2
        /\ 3 \in DOMAIN issue_phase
        /\ issue_phase[3] = k

\* C39: starting with a superuser, after any sequence of admin requests
\* (update_user_privileges, delete_user) issued by superusers, at least
\* one superuser account still exists.
C39_SuperuserRemains == superusers \cap accounts # {}

\* C40: for a project with at least one phase, the phase-based progress
\* of the executive dashboard equals the project progress the aggregator
\* computes from the same phases and issues, phases without issues
\* included.
C40_DashboardAgrees ==
    (progress.of = "dashboard" /\ project_phases # <<>>) =>
        LET aggregated == calculate_project_progress_by_phases(
                              project_phases, all_project_issues)
        IN progress.value.num * aggregated.den
               = aggregated.num * progress.value.den

====
